---- MODULE Spec2Model ----
(***************************************************************************)
(* Model of the dataplane provider's reconciliation engine:                *)
(*   - the apply primitive (util.ApplyManifests, eksdataplane.applyManifests)*)
(*   - the Create/Update orchestration of the three resource versions      *)
(*   - the teardown (Cleanup, both versions)                               *)
(* The Kubernetes API server is modelled as an object store with           *)
(* optimistic concurrency: every write stamps a fresh resource version,    *)
(* an Update is accepted only with the stored resource version, a Create   *)
(* only for an absent object and without a resource version.               *)
(***************************************************************************)
EXTENDS Integers, Sequences, FiniteSets, TLC

VARIABLES
    cluster,        \* object key -> [exists, rv, spec, extra]: the API server's store
    rvClock,        \* last resource version handed out by the API server
    impl,           \* which implementation of the operation is running
    pc,             \* position of the running operation
    d,              \* the diagnostics of the running operation ("" = no error)
    manifestYamls,  \* the documents of the rendered manifest, in file order
    doc,            \* index of the document being applied
    u,              \* the desired object in memory: its resource version
    attempt,        \* retries consumed from the per-document backoff
    run,            \* 1 = first apply of the manifest, 2 = the repeated apply
    op,             \* the resource operation running: "Create" or "Update"
    step,           \* index of the reconciliation step running
    config,         \* the configuration being applied
    retrylimits,    \* retries consumed from the package-level backoff `retrylimits`
    phase,          \* index of the teardown phase running
    items,          \* the listed items the running loop has still to visit
    clock,          \* seconds since the node-claim drain wait started
    awsNodeDS,      \* DeleteAwsNode: whether the Get found the DaemonSet
    awsNodeSA,      \* DeleteAwsNode: whether the Get found the ServiceAccount
    nodeRequiresRestart,
    nodegroupsOutput,   \* the node groups of the cluster (ListNodegroups)
    nodegroup,      \* restartNodes: index of the node group at hand
    invocation,     \* number of the invocation running
    nodeWait,       \* seconds since the node-ready wait started
    templateData,   \* RenderAndApplyTemplate: the template
    data,           \* RenderAndApplyTemplate: the variables map
    b,              \* RenderAndApplyTemplate: the rendered manifest
    clusterConfig,  \* CopyImages: the cluster configuration of the dataplane
    bucket,         \* S3: object (bucket and key) -> [exists, body]
    registry,       \* ECR: image reference -> [exists, content]
    imageList,      \* CopyImages: the unmarshalled image list
    image,          \* CopyImages: index of the image at hand in imageList.Images
    body,           \* CopyImages: the bytes read from the downloaded artifact
    copyRun,        \* number of the CopyImages invocation running
    secrets,        \* Secrets Manager: secret id -> [exists, value, tags, deletion]
    buf,            \* UpdateDeploymentConfig: the rendered deployment config
    roles,          \* IAM: role name -> its trust policy
    roleIndex,      \* updateRoleTrustPolicies: index of the role at hand
    hist            \* observations of the run, read by the properties only

applyVars == <<manifestYamls, doc, attempt, run>>
reconcileVars == <<op, step, config>>
cleanupVars == <<retrylimits, phase, items, clock>>
awsNodeVars == <<awsNodeDS, awsNodeSA, nodeRequiresRestart, nodegroupsOutput, nodegroup,
                 invocation>>
ciliumVars == <<nodeWait>>
renderVars == <<templateData, data, b>>
copyVars == <<clusterConfig, bucket, registry, imageList, image, body, copyRun>>
accountVars == <<secrets, buf, roles, roleIndex>>
componentVars == <<awsNodeVars, ciliumVars, renderVars, copyVars, accountVars>>

\* What the actions of one component leave alone.
awsNodeFrame ==
    <<applyVars, reconcileVars, cleanupVars, ciliumVars, renderVars, copyVars, accountVars>>
ciliumFrame ==
    <<applyVars, reconcileVars, cleanupVars, awsNodeVars, renderVars, copyVars, accountVars>>
renderFrame ==
    <<applyVars, reconcileVars, cleanupVars, awsNodeVars, ciliumVars, copyVars, accountVars>>
copyFrame ==
    <<applyVars, reconcileVars, cleanupVars, awsNodeVars, ciliumVars, renderVars, accountVars>>
settingsFrame == <<op, step, applyVars, cleanupVars, componentVars>>
accountFrame ==
    <<op, step, applyVars, cleanupVars, awsNodeVars, ciliumVars, renderVars, copyVars>>

vars == <<cluster, rvClock, impl, pc, d, u, hist, applyVars, reconcileVars, cleanupVars,
          componentVars>>

----------------------------------------------------------------------------
(* Bounds of the model *)

MaxDocs == 2
MaxPolls == 2
MaxInterference == 1
MaxExt == 2

(* retry.WithMaxRetries(5, ...) *)
MaxRetries == 5

----------------------------------------------------------------------------
(* The API server *)

Absent == [exists |-> FALSE, rv |-> 0, spec |-> "none", extra |-> "none"]

\* Create: rejected for an existing object (AlreadyExists) and for a request
\* that carries a resource version.
CreateAccepted(k, uRV) == ~cluster[k].exists /\ uRV = 0

\* Update: rejected for an absent object (NotFound) and for a stale
\* resource version (Conflict).
UpdateAccepted(k, uRV) == cluster[k].exists /\ uRV = cluster[k].rv

\* A write replaces the stored object by the request's content (PUT/POST of
\* the whole object): fields the request does not carry are gone.
Written(k, spec) ==
    [cluster EXCEPT ![k] = [exists |-> TRUE, rv |-> rvClock + 1,
                            spec |-> spec, extra |-> "none"]]

UpdateError(k) == IF cluster[k].exists THEN "conflict" ELSE "notfound"

CreateError(k, uRV) == IF cluster[k].exists THEN "exists" ELSE "rvset"

----------------------------------------------------------------------------
(* The apply primitive *)

Keys == {"k1", "k2"}

\* The rendered manifests: up to MaxDocs documents, each naming one object;
\* the content of the i-th document alternates between two values, so that two
\* documents for the same object differ.
ContentOf(i) == IF i % 2 = 1 THEN "a" ELSE "b"
Manifests ==
    UNION {{[i \in 1..n |-> [key |-> ks[i], spec |-> ContentOf(i)]] : ks \in [1..n -> Keys]} :
           n \in 1..MaxDocs}

CurDoc_Last == manifestYamls[Len(manifestYamls)]
CurDoc == manifestYamls[doc]

\* u.SetResourceVersion(ug.GetResourceVersion())
SetResourceVersion_Stale(obj, rv) == obj
SetResourceVersion(obj, rv) == [obj EXCEPT !.rv = rv]

\* k8serrors.IsNotFound(err) on the answer of Get
IsNotFound_Always(k) == TRUE
IsNotFound(k) == ~cluster[k].exists

\* WithMaxRetries: Next() stops once `max` retries were handed out.
BackoffStops_NoRetry(a) == TRUE
BackoffStops(a) == a >= MaxRetries

\* Whether the failure of a call is handed to retry.Do as a RetryableError.
\* util.ApplyManifests wraps every error; eksdataplane.applyManifests runs
\* only the Update inside retry.Do and returns its error unwrapped.
Retryable(i) == i = "util"

\* The summary of the error diagnostic a failed call ends with.
ErrorSummary(i, at) ==
    IF i = "util" THEN "Failed to create manifest"
    ELSE CASE at = "get" -> "Failed to lookup object"
           [] at = "create" -> "Failed to create object"
           [] OTHER -> "Failed to update object"

\* A call of the current attempt failed with `err`.
CallFailed(at, err) ==
    /\ IF Retryable(impl) /\ ~BackoffStops(attempt)
       THEN /\ attempt' = attempt + 1
            /\ pc' = "get"
            /\ d' = d
       ELSE /\ attempt' = attempt
            /\ pc' = "failed"
            /\ d' = ErrorSummary(impl, at)
    /\ hist' = [hist EXCEPT !.lastErr = err,
                            !.staleConflict = @ \/ (err = "conflict" /\ ~hist.extSinceGet),
                            !.conflicts = @ \/ (err = "conflict"),
                            !.faults = @ \/ (err = "apierr")]
    /\ UNCHANGED <<cluster, rvClock, u, doc, run>>

\* The current document is applied: go on with the next one.
DocApplied(path) ==
    /\ IF doc < Len(manifestYamls)
       THEN /\ doc' = doc + 1
            /\ pc' = "get"
       ELSE /\ doc' = doc
            /\ pc' = "done"
    /\ attempt' = 0
    /\ u' = [rv |-> 0]
    /\ hist' = [hist EXCEPT !.lastErr = "none",
                            !.created = @ \/ (path = "create"),
                            !.lastWrite = [key |-> CurDoc.key, spec |-> CurDoc.spec]]
    /\ UNCHANGED <<d, run>>

\* yaml.Unmarshal of the current document fails: the apply returns before any
\* call for this document.
ApplyUnmarshal ==
    /\ pc = "get"
    /\ attempt = 0
    /\ run = 1
    /\ pc' = "invalid"
    /\ d' = "Failed to unmarshal manifest"
    /\ hist' = [hist EXCEPT !.faults = TRUE]
    /\ UNCHANGED <<cluster, rvClock, impl, u, applyVars, reconcileVars, cleanupVars,
                   componentVars>>

\* kubeClient.Get of the current document's object
ApplyGet ==
    /\ pc = "get"
    /\ \E res \in {"ok", "apierr"} :
         IF res = "apierr"
         THEN CallFailed("get", "apierr")
         ELSE /\ IF IsNotFound(CurDoc.key)
                 THEN /\ u' = u
                      /\ pc' = "create"
                 ELSE /\ u' = SetResourceVersion(u, cluster[CurDoc.key].rv)
                      /\ pc' = "update"
              /\ hist' = [hist EXCEPT !.extSinceGet = FALSE]
              /\ UNCHANGED <<cluster, rvClock, d, doc, attempt, run>>
    /\ UNCHANGED <<impl, manifestYamls, reconcileVars, cleanupVars, componentVars>>

\* kubeClient.Create(ctx, u)
ApplyCreate ==
    /\ pc = "create"
    /\ \E res \in {"ok", "apierr"} :
         IF res = "apierr"
         THEN CallFailed("create", "apierr")
         ELSE IF CreateAccepted(CurDoc.key, u.rv)
         THEN /\ cluster' = Written(CurDoc.key, CurDoc.spec)
              /\ rvClock' = rvClock + 1
              /\ DocApplied("create")
         ELSE CallFailed("create", CreateError(CurDoc.key, u.rv))
    /\ UNCHANGED <<impl, manifestYamls, reconcileVars, cleanupVars, componentVars>>

\* kubeClient.Update(ctx, u)
ApplyUpdate ==
    /\ pc = "update"
    /\ \E res \in {"ok", "apierr"} :
         IF res = "apierr"
         THEN CallFailed("update", "apierr")
         ELSE IF UpdateAccepted(CurDoc.key, u.rv)
         THEN /\ cluster' = Written(CurDoc.key, CurDoc.spec)
              /\ rvClock' = rvClock + 1
              /\ DocApplied("update")
         ELSE CallFailed("update", UpdateError(CurDoc.key))
    /\ UNCHANGED <<impl, manifestYamls, reconcileVars, cleanupVars, componentVars>>

\* The same rendered manifest is applied again after a successful apply.
ApplyAgain ==
    /\ pc = "done"
    /\ run = 1
    /\ run' = 2
    /\ doc' = 1
    /\ pc' = "get"
    /\ attempt' = 0
    /\ u' = [rv |-> 0]
    /\ hist' = [hist EXCEPT !.after1 = cluster, !.faults = FALSE, !.created = FALSE,
                            !.lastErr = "none"]
    /\ UNCHANGED <<cluster, rvClock, impl, d, manifestYamls, reconcileVars, cleanupVars, componentVars>>

----------------------------------------------------------------------------
(* Other writers of the cluster (controllers, operators) *)

ExtModify(k) ==
    /\ cluster[k].exists
    /\ cluster' = [cluster EXCEPT ![k] = [@ EXCEPT !.rv = rvClock + 1, !.spec = "x",
                                                   !.extra = "ann"]]

ExtDelete(k) ==
    /\ cluster[k].exists
    /\ cluster' = [cluster EXCEPT ![k] = Absent]

ExtCreate(k) ==
    /\ ~cluster[k].exists
    /\ cluster' = [cluster EXCEPT ![k] = [exists |-> TRUE, rv |-> rvClock + 1,
                                          spec |-> "x", extra |-> "ann"]]

ApplyExternal ==
    /\ pc \in {"get", "create", "update"}
    /\ hist.ext < MaxExt
    /\ \E k \in Keys, kind \in {"modify", "delete", "create"} :
         /\ CASE kind = "modify" -> ExtModify(k)
              [] kind = "delete" -> ExtDelete(k)
              [] OTHER -> ExtCreate(k)
         /\ hist' = [hist EXCEPT !.ext = @ + 1,
                                 !.extKinds = @ \cup {kind},
                                 !.extSinceGet = TRUE]
    /\ rvClock' = rvClock + 1
    /\ UNCHANGED <<impl, pc, d, u, applyVars, reconcileVars, cleanupVars, componentVars>>

----------------------------------------------------------------------------

\* The variables of the operations that are not running.
ReconcileIdle == op = "none" /\ step = 0 /\ config = "none"
ApplyIdle == manifestYamls = <<>> /\ doc = 0 /\ attempt = 0 /\ run = 0
CleanupIdle == retrylimits = 0 /\ phase = 0 /\ items = <<>> /\ clock = 0
AwsNodeIdle ==
    /\ awsNodeDS = FALSE /\ awsNodeSA = FALSE /\ nodeRequiresRestart = FALSE
    /\ nodegroupsOutput = <<>> /\ nodegroup = 0 /\ invocation = 0
CiliumIdle == nodeWait = 0
RenderIdle == templateData = <<>> /\ data = <<>> /\ b = <<>>
CopyIdle ==
    /\ clusterConfig = <<>> /\ bucket = <<>> /\ registry = <<>>
    /\ imageList = <<>> /\ image = 0 /\ body = <<>> /\ copyRun = 0
AccountIdle == secrets = <<>> /\ buf = <<>> /\ roles = <<>> /\ roleIndex = 0
ComponentIdle == AwsNodeIdle /\ CiliumIdle /\ RenderIdle /\ CopyIdle /\ AccountIdle

ApplyHist0 ==
    [lastErr |-> "none", staleConflict |-> FALSE, conflicts |-> FALSE, faults |-> FALSE,
     created |-> FALSE, lastWrite |-> [key |-> "none", spec |-> "none"],
     extSinceGet |-> FALSE, ext |-> 0, extKinds |-> {}, after1 |-> <<>>]

ApplyInit ==
    /\ impl \in {"util", "eks"}
    /\ manifestYamls \in Manifests
    /\ \E present \in SUBSET Keys :
         cluster = [k \in Keys |->
                      IF k \in present
                      THEN [exists |-> TRUE, rv |-> 1, spec |-> "x", extra |-> "ann"]
                      ELSE Absent]
    /\ rvClock = 1
    /\ pc = "get"
    /\ d = ""
    /\ doc = 1
    /\ u = [rv |-> 0]
    /\ attempt = 0
    /\ run = 1
    /\ hist = ApplyHist0
    /\ ReconcileIdle
    /\ CleanupIdle
    /\ ComponentIdle

ApplyNext ==
    \/ ApplyUnmarshal
    \/ ApplyGet
    \/ ApplyCreate
    \/ ApplyUpdate
    \/ ApplyAgain
    \/ ApplyExternal

SpecApply == ApplyInit /\ [][ApplyNext]_vars

----------------------------------------------------------------------------
(* Create and Update of the three resource versions:                       *)
(*   "aws"  AWSDataplaneResource   (resource_aws_dataplane.go)             *)
(*   "eks1" EKSDataplaneResource   (internal/provider/eks_dataplane_resource.go) *)
(*   "eks2" EKSDataplaneResource   (the other version of that file)        *)

Impls == {"aws", "eks1", "eks2"}

\* The components Create runs, in the order of its source.
CreateSteps_SettingsLast(i) ==
    <<"CopyImages", "DeleteAwsNode", "InstallCilium", "InstallDeltaStream",
      "UpdateClusterConfig">>
CreateSteps(i) ==
    IF i = "eks2"
    THEN <<"DeleteAwsNode", "InstallCilium", "UpdateClusterConfig", "CopyImages",
           "InstallDeltaStream">>
    ELSE <<"CopyImages", "DeleteAwsNode", "InstallCilium", "UpdateClusterConfig",
           "InstallDeltaStream">>

\* The components Update runs, in the order of its source.
UpdateSteps_AsCreate(i) == CreateSteps(i)
UpdateSteps(i) ==
    IF i = "eks1"
    THEN <<"CopyImages", "UpdateClusterConfig", "InstallDeltaStream">>
    ELSE <<"UpdateClusterConfig", "CopyImages", "InstallDeltaStream">>

Steps == IF op = "Create" THEN CreateSteps(impl) ELSE UpdateSteps(impl)
CurStep == Steps[step]

NsKey == "Namespace/cluster-config"
SecretKey == "Secret/cluster-config/cluster-settings"

Configs == {"cfgA", "cfgB"}

\* The Data of the cluster-settings Secret computed from a configuration.
Settings(c) == IF c = "cfgA" THEN "settingsA" ELSE "settingsB"

\* resp.Diagnostics.Append(<component>...); if HasError { return }
StepReturns(err) ==
    /\ IF err # ""
       THEN /\ d' = err
            /\ pc' = "done"
            /\ step' = step
       ELSE /\ d' = d
            /\ IF step < Len(Steps)
               THEN step' = step + 1 /\ pc' = "step"
               ELSE step' = step /\ pc' = "status"
    /\ UNCHANGED <<impl, op, config, applyVars, cleanupVars, componentVars>>

\* d.infraVersion, the version the provider was configured with.
InfraVersion == "0.9.2"

\* The product_version of a configuration.
ProductVersion(c) == IF c = "cfgA" THEN "1.0.0" ELSE "1.1.0"

\* The status object written to the state (the time stamp left out).
Status_VersionsSwapped(c) ==
    [ProviderVersion |-> ProductVersion(c), ProductVersion |-> InfraVersion]
Status(c) == [ProviderVersion |-> InfraVersion, ProductVersion |-> ProductVersion(c)]

NoStatus == [ProviderVersion |-> "", ProductVersion |-> ""]

\* Whether the operation calls resp.State.Set with the plan right after
\* Plan.Get: the Update of part_006 does.
SetsStateFirst_Always(i, o) == TRUE
SetsStateFirst(i, o) == i = "eks2" /\ o = "Update"

\* A call of resp.State.Set or resp.State.SetAttribute.
StateWrite(call, status, accepted) == [call |-> call, status |-> status, ok |-> accepted]

\* Plan.Get, (State.Set of the plan,) GetAwsConfig, GetKubeClient
ReconcilePrepare ==
    /\ pc = "prepare"
    /\ \E res \in {"ok", "planerr", "seterr", "err"} :
         /\ (res = "seterr") => SetsStateFirst(impl, op)
         /\ IF res = "ok"
            THEN /\ pc' = "step"
                 /\ d' = d
            ELSE /\ pc' = "done"
                 /\ d' = "Failed to prepare"
         /\ hist' = IF SetsStateFirst(impl, op) /\ res # "planerr"
                    THEN [hist EXCEPT !.stateWrites =
                            Append(@, StateWrite("Set", NoStatus, res # "seterr"))]
                    ELSE hist
    /\ UNCHANGED <<cluster, rvClock, impl, u, step, op, config, applyVars, cleanupVars, componentVars>>

\* After the last component: ClusterConfigurationData, the status object and
\* resp.State.Set (AWSDataplaneResource, internal/provider) or
\* resp.State.SetAttribute of "status" (part_006).
ReconcileStatus ==
    /\ pc = "status"
    /\ \E res \in {"ok", "cfgerr", "objerr", "seterr"} :
         /\ (res = "objerr") => impl # "eks2"
         /\ d' = CASE res = "ok" -> d
                   [] res = "cfgerr" -> "error reading configuration"
                   [] res = "objerr" -> "error building status"
                   [] OTHER -> "error writing state"
         /\ hist' = IF res \in {"ok", "seterr"}
                    THEN [hist EXCEPT !.stateWrites =
                            Append(@, StateWrite(IF impl = "eks2" THEN "SetAttribute" ELSE "Set",
                                                 Status(config), res = "ok"))]
                    ELSE hist
    /\ pc' = "done"
    /\ UNCHANGED <<cluster, rvClock, impl, u, step, op, config, applyVars, cleanupVars, componentVars>>

\* CopyImages, DeleteAwsNode, InstallCilium, InstallDeltaStream: the component
\* runs and returns its diagnostics.
RunComponent ==
    /\ pc = "step"
    /\ CurStep # "UpdateClusterConfig"
    /\ \E res \in {"ok", "err"} :
         /\ StepReturns(IF res = "ok" THEN "" ELSE "error in " \o CurStep)
         /\ hist' = [hist EXCEPT !.calls = Append(@, CurStep),
                                 !.results = Append(@, res)]
    /\ UNCHANGED <<cluster, rvClock, u>>

\* UpdateClusterConfig: controllerutil.CreateOrUpdate of the Namespace; its
\* result is not looked at.
UccNamespace ==
    /\ pc = "step"
    /\ CurStep = "UpdateClusterConfig"
    /\ \E res \in {"ok", "apierr"} :
         /\ IF res = "ok" /\ ~cluster[NsKey].exists
            THEN /\ cluster' = Written(NsKey, "ns")
                 /\ rvClock' = rvClock + 1
            ELSE UNCHANGED <<cluster, rvClock>>
         /\ hist' = [hist EXCEPT !.calls = Append(@, CurStep),
                                 !.couFailed = @ \/ (res = "apierr")]
    /\ pc' = "ucc_prepare"
    /\ UNCHANGED <<impl, d, u, applyVars, reconcileVars, cleanupVars, componentVars>>

\* UpdateClusterConfig: ClusterConfigurationData, DescribeKubeCluster,
\* url.Parse and the subnet lists; each failure is returned as a diagnostic.
UccPrepare ==
    /\ pc = "ucc_prepare"
    /\ \E res \in {"ok", "err"} :
         IF res = "ok"
         THEN /\ pc' = "ucc_get"
              /\ UNCHANGED <<impl, d, hist, applyVars, reconcileVars, cleanupVars, componentVars>>
         ELSE /\ StepReturns("error getting cluster data")
              /\ hist' = [hist EXCEPT !.results = Append(@, "err"),
                                      !.uccDone = TRUE, !.extSinceUcc = FALSE]
    /\ UNCHANGED <<cluster, rvClock, u>>

\* UpdateClusterConfig returns d, to which no CreateOrUpdate error was added.
UccReturns(failed) ==
    /\ StepReturns("")
    /\ hist' = [hist EXCEPT !.results = Append(@, "ok"),
                            !.couFailed = @ \/ failed,
                            !.uccDone = TRUE, !.extSinceUcc = FALSE]

\* CreateOrUpdate of the Secret: the Get
UccGetSecret ==
    /\ pc = "ucc_get"
    /\ \E res \in {"ok", "apierr"} :
         IF res = "apierr"
         THEN /\ UccReturns(TRUE)
              /\ u' = u
         ELSE /\ u' = [rv |-> cluster[SecretKey].rv, spec |-> cluster[SecretKey].spec]
              /\ pc' = "ucc_write"
              /\ UNCHANGED <<impl, d, hist, applyVars, reconcileVars, cleanupVars, componentVars>>
    /\ UNCHANGED <<cluster, rvClock>>

\* A write of CreateOrUpdate keeps what the fetched object carried besides
\* the fields the mutate function sets.
Mutated(k, spec) ==
    [cluster EXCEPT ![k] = [@ EXCEPT !.rv = rvClock + 1, !.spec = spec]]

\* CreateOrUpdate of the Secret: Create when the Get answered not-found,
\* nothing when the mutated object equals the fetched one, Update otherwise.
UccWriteSecret ==
    /\ pc = "ucc_write"
    /\ \E res \in {"ok", "apierr"} :
         IF u.rv = 0
         THEN IF res = "ok" /\ cluster[NsKey].exists /\ CreateAccepted(SecretKey, 0)
              THEN /\ cluster' = Written(SecretKey, Settings(config))
                   /\ rvClock' = rvClock + 1
                   /\ UccReturns(FALSE)
              ELSE /\ UNCHANGED <<cluster, rvClock>>
                   /\ UccReturns(TRUE)
         ELSE IF u.spec = Settings(config)
         THEN /\ UNCHANGED <<cluster, rvClock>>
              /\ UccReturns(FALSE)
         ELSE IF res = "ok" /\ UpdateAccepted(SecretKey, u.rv)
              THEN /\ cluster' = Mutated(SecretKey, Settings(config))
                   /\ rvClock' = rvClock + 1
                   /\ UccReturns(FALSE)
              ELSE /\ UNCHANGED <<cluster, rvClock>>
                   /\ UccReturns(TRUE)
    /\ u' = u

\* Another writer changes or deletes the cluster-settings Secret.
ReconcileExternal ==
    /\ pc \in {"step", "ucc_prepare", "ucc_get", "ucc_write"}
    /\ hist.ext < MaxExt
    /\ \/ ExtModify(SecretKey)
       \/ ExtDelete(SecretKey)
    /\ rvClock' = rvClock + 1
    /\ hist' = [hist EXCEPT !.ext = @ + 1, !.extSinceUcc = TRUE]
    /\ UNCHANGED <<impl, pc, d, u, applyVars, reconcileVars, cleanupVars, componentVars>>

ReconcileHist0 ==
    [calls |-> <<>>, results |-> <<>>, couFailed |-> FALSE, uccDone |-> FALSE,
     extSinceUcc |-> FALSE, ext |-> 0, stateWrites |-> <<>>]

ReconcileInit ==
    /\ impl \in Impls
    /\ op \in {"Create", "Update"}
    /\ config \in Configs
    /\ step = 1
    /\ pc = "prepare"
    /\ d = ""
    /\ u = [rv |-> 0, spec |-> "none"]
    /\ \E ns \in BOOLEAN, old \in {"none", "settingsA", "settingsB"} :
         /\ (old # "none") => ns
         /\ cluster = [k \in {NsKey, SecretKey} |->
                         IF k = NsKey
                         THEN (IF ns THEN [exists |-> TRUE, rv |-> 1, spec |-> "ns",
                                           extra |-> "none"]
                               ELSE Absent)
                         ELSE (IF old # "none"
                               THEN [exists |-> TRUE, rv |-> 1, spec |-> old,
                                     extra |-> "ann"]
                               ELSE Absent)]
    /\ rvClock = 1
    /\ hist = ReconcileHist0
    /\ ApplyIdle
    /\ CleanupIdle
    /\ ComponentIdle

ReconcileNext ==
    \/ ReconcilePrepare
    \/ ReconcileStatus
    \/ RunComponent
    \/ UccNamespace
    \/ UccPrepare
    \/ UccGetSecret
    \/ UccWriteSecret
    \/ ReconcileExternal

SpecReconcile == ReconcileInit /\ [][ReconcileNext]_vars

----------------------------------------------------------------------------
(* Teardown: Cleanup, in its two versions                                  *)
(*   "drain"  deployment-config.go (lists the kustomizations, waits for    *)
(*            the node claims to drain)                                    *)
(*   "legacy" destroy.go (fixed list of kustomizations, no drain)          *)

\* retry.WithMaxDuration(time.Minute*20, retry.NewConstant(time.Second*10)),
\* in seconds.
DrainMaxDuration == 1200
DrainBackoff == 10

\* The kustomizations of namespace cluster-config, in the order a List
\* returns them (by name).
KOrder ==
    <<"cilium", "cilium-cluster-policies", "data-plane", "infra", "istio",
      "istio-api-ingress", "istio-grafana-ingress", "karpenter",
      "karpenter-provisioner", "kyverno", "kyverno-policies", "observability",
      "observability-addons">>

KNames == {KOrder[i] : i \in 1..Len(KOrder)}

\* The kustomizations the drain version leaves in place.
Exempt_NoKarpenter ==
    {"infra", "cilium", "cilium-cluster-policies", "kyverno", "kyverno-policies"}
Exempt ==
    {"infra", "cilium", "cilium-cluster-policies", "karpenter", "kyverno",
     "kyverno-policies"}

\* The Services of namespace istio-system, in list order, the node claims and
\* the pods running on each claim's node.
SOrder == <<"istio-ingressgateway", "istiod", "istio-grafana-gateway">>
SNames == {SOrder[i] : i \in 1..Len(SOrder)}
ServiceType(s) == IF s = "istiod" THEN "ClusterIP" ELSE "LoadBalancer"

\* A LoadBalancer Service of another namespace.
OtherService == "ingress-nginx/controller"

COrder == <<"nodeclaim-1", "nodeclaim-2">>
Claims == {COrder[i] : i \in 1..Len(COrder)}
PodOn(c) == "pod-on-" \o c
Pods == {PodOn(c) : c \in Claims}

DeploymentSecret == "deployment-config"

CleanupKeys ==
    KNames \cup SNames \cup {OtherService} \cup Claims \cup Pods \cup {DeploymentSecret}

Phase(o, n) == [op |-> o, name |-> n]

CleanupPhases_LoadBalancersFirst(i) ==
    IF i = "drain"
    THEN <<Phase("listServices", ""), Phase("deleteLoadBalancers", ""),
           Phase("suspend", "istio"), Phase("suspend", "istio-api-ingress"),
           Phase("suspend", "istio-grafana-ingress"),
           Phase("suspend", "infra"), Phase("delete", "data-plane"),
           Phase("listKustomizations", ""), Phase("deleteListed", ""),
           Phase("drain", ""), Phase("config", ""), Phase("deleteSecret", "")>>
    ELSE <<Phase("config", ""), Phase("listServices", ""),
           Phase("deleteLoadBalancers", ""), Phase("suspend", "istio"),
           Phase("suspend", "infra"), Phase("delete", "data-plane"),
           Phase("delete", "observability-addons"), Phase("delete", "observability"),
           Phase("delete", "karpenter-provisioner"), Phase("delete", "infra"),
           Phase("deleteSecret", "")>>

\* The phases of Cleanup in the order the code runs them.
CleanupPhases(i) ==
    IF i = "drain"
    THEN <<Phase("suspend", "istio"), Phase("suspend", "istio-api-ingress"),
           Phase("suspend", "istio-grafana-ingress"),
           Phase("listServices", ""), Phase("deleteLoadBalancers", ""),
           Phase("delete", "data-plane"), Phase("suspend", "infra"),
           Phase("listKustomizations", ""), Phase("deleteListed", ""),
           Phase("drain", ""), Phase("config", ""), Phase("deleteSecret", "")>>
    ELSE <<Phase("config", ""), Phase("suspend", "istio"),
           Phase("listServices", ""), Phase("deleteLoadBalancers", ""),
           Phase("delete", "data-plane"), Phase("suspend", "infra"),
           Phase("delete", "observability-addons"), Phase("delete", "observability"),
           Phase("delete", "karpenter-provisioner"), Phase("delete", "infra"),
           Phase("deleteSecret", "")>>

Phases == CleanupPhases(impl)
CurPhase == Phases[phase]

\* Where a phase starts.
PhaseEntry(o) ==
    CASE o \in {"suspend", "delete"} -> "get"
      [] o \in {"listServices", "listKustomizations"} -> "list"
      [] o \in {"deleteLoadBalancers", "deleteListed"} -> "loop"
      [] o = "drain" -> "drain"
      [] o = "config" -> "config"
      [] OTHER -> "secret"

\* The object the running get or write is about, and the write it is.
Target == IF CurPhase.op \in {"deleteLoadBalancers", "deleteListed"}
          THEN Head(items).name ELSE CurPhase.name

WriteOp == CASE CurPhase.op = "deleteLoadBalancers" -> "deleteService"
             [] CurPhase.op = "suspend" -> "suspend"
             [] OTHER -> "deleteKustomization"

\* What a List answers: the existing objects in list order.
Listing(order) ==
    SelectSeq([i \in 1..Len(order) |-> [name |-> order[i], type |-> cluster[order[i]].spec]],
              LAMBDA it : cluster[it.name].exists)

Call(c, t) == [phase |-> phase, call |-> c, target |-> t]

Logged(h, calls) == [h EXCEPT !.calls = @ \cup calls]

\* A phase returns without error: the next phase starts, or Cleanup returns.
PhaseDone(h) ==
    /\ hist' = [h EXCEPT !.ok = @ \cup {phase}]
    /\ IF phase < Len(Phases)
       THEN phase' = phase + 1 /\ pc' = PhaseEntry(Phases[phase + 1].op)
       ELSE phase' = phase /\ pc' = "done"

\* deleteKustomization, suspendKustomization or the Delete of a Service
\* returns without error: inside a loop the next item is visited.
Returned(h) ==
    IF CurPhase.op \in {"deleteLoadBalancers", "deleteListed"}
    THEN /\ items' = Tail(items)
         /\ pc' = "loop"
         /\ phase' = phase
         /\ hist' = h
    ELSE /\ items' = items
         /\ PhaseDone(h)

\* A call inside retry.Do(ctx, retrylimits, ...) answered a RetryableError:
\* the package-level backoff either grants one more attempt or stops, and
\* then the phase fails with the given summary and Cleanup returns.
RetryOrFail(summary, h) ==
    IF BackoffStops(retrylimits)
    THEN /\ d' = summary
         /\ pc' = "done"
         /\ hist' = [h EXCEPT !.failed = phase]
         /\ retrylimits' = retrylimits
    ELSE /\ retrylimits' = retrylimits + 1
         /\ hist' = h
         /\ UNCHANGED <<d, pc>>

\* getKustomization answers a nil kustomization for a not-found Get.
GetAnswersNil_Never(t) == FALSE
GetAnswersNil(t) == ~cluster[t].exists

\* getKustomization
CleanupGet ==
    /\ pc = "get"
    /\ \E fault \in BOOLEAN :
         LET h == [Logged(hist, {Call("Get", Target)})
                     EXCEPT !.notFound = IF ~fault /\ ~cluster[Target].exists
                                         THEN @ \cup {[phase |-> phase, target |-> Target]}
                                         ELSE @]
         IN
         IF fault
         THEN /\ RetryOrFail("failed to get " \o Target \o " kustomization", h)
              /\ UNCHANGED <<u, phase, items>>
         ELSE IF ~GetAnswersNil(Target)
              THEN /\ u' = [rv |-> cluster[Target].rv, spec |-> cluster[Target].spec]
                   /\ pc' = "write"
                   /\ hist' = h
                   /\ UNCHANGED <<d, retrylimits, phase, items>>
              ELSE /\ Returned([h EXCEPT !.absent = @ \cup {Target}])
                   /\ UNCHANGED <<d, u, retrylimits>>
    /\ UNCHANGED <<cluster, rvClock, impl, clock, applyVars, reconcileVars, componentVars>>

WriteFailure(w, t) ==
    CASE w = "suspend" -> "failed to suspend " \o t
      [] w = "deleteService" -> "failed to delete loadbalancer " \o t
      [] OTHER -> "failed to delete " \o t \o " kustomization"

\* The Update of suspendKustomization (with the object getKustomization
\* fetched) and the Delete of deleteKustomization or of a listed Service.
CleanupWrite ==
    /\ pc = "write"
    /\ \E fault \in BOOLEAN :
         IF WriteOp = "suspend"
         THEN LET h == Logged(hist, {Call("Update", Target)}) IN
              IF ~fault /\ UpdateAccepted(Target, u.rv)
              THEN /\ cluster' = [cluster EXCEPT ![Target] =
                                    [@ EXCEPT !.rv = rvClock + 1, !.spec = "suspended"]]
                   /\ rvClock' = rvClock + 1
                   /\ Returned([h EXCEPT !.suspended = @ \cup {Target}])
                   /\ UNCHANGED <<d, retrylimits>>
              ELSE /\ RetryOrFail(WriteFailure(WriteOp, Target), h)
                   /\ UNCHANGED <<cluster, rvClock, phase, items>>
         ELSE LET h == [Logged(hist, {Call("Delete", Target)})
                          EXCEPT !.gone = IF ~fault /\ ~cluster[Target].exists
                                          THEN @ \cup {[phase |-> phase, target |-> Target]}
                                          ELSE @]
              IN
              IF fault
              THEN /\ RetryOrFail(WriteFailure(WriteOp, Target), h)
                   /\ UNCHANGED <<cluster, rvClock, phase, items>>
              ELSE /\ cluster' = [cluster EXCEPT ![Target] = Absent]
                   /\ Returned(h)
                   /\ UNCHANGED <<rvClock, d, retrylimits>>
    /\ UNCHANGED <<impl, u, clock, applyVars, reconcileVars, componentVars>>

\* The List of the Services of istio-system and of the kustomizations of
\* cluster-config.
CleanupList ==
    /\ pc = "list"
    /\ \E fault \in BOOLEAN :
         IF CurPhase.op = "listServices"
         THEN LET h == Logged(hist, {Call("List", "services")}) IN
              IF fault
              THEN /\ RetryOrFail("failed to list loadbalancer services", h)
                   /\ UNCHANGED <<phase, items>>
              ELSE /\ items' = Listing(SOrder)
                   /\ PhaseDone(h)
                   /\ UNCHANGED <<d, retrylimits>>
         ELSE LET h == Logged(hist, {Call("List", "kustomizations")}) IN
              IF fault
              THEN /\ RetryOrFail("failed to list kustomizations", h)
                   /\ UNCHANGED <<phase, items>>
              ELSE /\ items' = Listing(KOrder)
                   /\ PhaseDone([h EXCEPT !.listed =
                                   {n \in KNames : cluster[n].exists}])
                   /\ UNCHANGED <<d, retrylimits>>
    /\ UNCHANGED <<cluster, rvClock, impl, u, clock, applyVars, reconcileVars, componentVars>>

Skipped_ExemptOnly(o, it) == it.name \in Exempt

\* The items a loop passes over.
Skipped(o, it) ==
    IF o = "deleteLoadBalancers" THEN it.type # "LoadBalancer" ELSE it.name \in Exempt

\* The head of the two loops: over the listed Services and over the listed
\* kustomizations.
CleanupLoop ==
    /\ pc = "loop"
    /\ IF items = <<>>
       THEN /\ PhaseDone(hist)
            /\ items' = items
       ELSE /\ IF Skipped(CurPhase.op, Head(items))
               THEN items' = Tail(items) /\ pc' = pc
               ELSE items' = items
                    /\ pc' = IF CurPhase.op = "deleteListed" THEN "get" ELSE "write"
            /\ UNCHANGED <<phase, hist>>
    /\ UNCHANGED <<cluster, rvClock, impl, d, u, retrylimits, clock, applyVars,
                   reconcileVars, componentVars>>

Min(x, y) == IF x <= y THEN x ELSE y

\* The pods one attempt of the drain wait has to delete: the pods running on
\* the nodes of the listed node claims, in list order.
DrainWork ==
    SelectSeq([i \in 1..Len(COrder) |-> COrder[i]],
              LAMBDA c : cluster[c].exists /\ cluster[PodOn(c)].exists)

\* Whether the duration-bounded backoff of the drain wait stops.
DrainStops_Never(t) == FALSE
DrainStops(t) == DrainMaxDuration - t <= 0

\* One attempt of the drain wait: List of the node claims, per claim List of
\* the pods on its node and Delete of each, and the check of the claim count.
\* A failing call (fault) cuts the attempt short after j deleted pods.  A
\* failed attempt sleeps DrainBackoff and runs again, until the backoff stops;
\* the error is then added and Cleanup goes on to the next statement.  The
\* calls of an attempt take an unknown time: the model follows the attempts
\* that cost no time (at most MaxPolls of them) and those after which the
\* deadline has passed.
CleanupDrain ==
    /\ pc = "drain"
    /\ \E fault \in BOOLEAN, j \in 0..Len(DrainWork) :
         LET listedClaims == {c \in Claims : cluster[c].exists}
             deleted == {PodOn(DrainWork[i]) : i \in 1..j}
             h == [Logged(hist, {Call("List", "nodeclaims")}
                                \cup {Call("Delete", p) : p \in deleted})
                     EXCEPT !.polls = @ + 1,
                            !.round = IF fault THEN "cut" ELSE "full",
                            !.emptyList = @ \/ (~fault /\ listedClaims = {})]
         IN
         /\ ~fault => j = Len(DrainWork)
         /\ cluster' = [k \in DOMAIN cluster |->
                          IF k \in deleted THEN Absent ELSE cluster[k]]
         /\ IF ~fault /\ listedClaims = {}
            THEN /\ PhaseDone(h)
                 /\ UNCHANGED <<d, clock>>
            ELSE IF DrainStops(clock)
                 THEN /\ d' = "failed while waiting for node claims to be cleaned up"
                      /\ hist' = [h EXCEPT !.failed = phase]
                      /\ phase' = phase + 1
                      /\ pc' = PhaseEntry(Phases[phase + 1].op)
                      /\ clock' = clock
                 ELSE /\ \E callTime \in {0, DrainMaxDuration} :
                           /\ clock' = Min(clock + callTime + Min(DrainBackoff,
                                                                  DrainMaxDuration - clock),
                                           DrainMaxDuration)
                           /\ clock' < DrainMaxDuration => h.polls < MaxPolls
                      /\ hist' = h
                      /\ UNCHANGED <<d, phase, pc>>
    /\ UNCHANGED <<rvClock, impl, u, retrylimits, items, applyVars, reconcileVars, componentVars>>

\* Karpenter removes a node claim (and its node with the pods on it).
CleanupClaimGone ==
    /\ pc = "drain"
    /\ \E c \in Claims :
         /\ cluster[c].exists
         /\ cluster' = [cluster EXCEPT ![c] = Absent, ![PodOn(c)] = Absent]
    /\ UNCHANGED <<rvClock, impl, pc, d, u, hist, applyVars, reconcileVars, cleanupVars, componentVars>>

\* d.Append(diags...): the diagnostics so far stay, the new ones are added
\* (the model keeps the first error).
Appended_OnlyNew(dd, diags) == diags
Appended(dd, diags) == IF dd # "" THEN dd ELSE diags

\* dp.ClusterConfigurationData, d.Append and the return on d.HasError().
CleanupConfig ==
    /\ pc = "config"
    /\ \E bad \in BOOLEAN :
         LET diags == IF bad THEN "Value Conversion Error" ELSE ""
             appended == Appended(d, diags)
         IN
         /\ d' = appended
         /\ IF appended # ""
            THEN /\ pc' = "done"
                 /\ phase' = phase
                 /\ hist' = [hist EXCEPT !.failed = IF @ = 0 THEN phase ELSE @]
            ELSE PhaseDone(hist)
    /\ UNCHANGED <<cluster, rvClock, impl, u, retrylimits, items, clock, applyVars,
                   reconcileVars, componentVars>>

\* Secrets Manager answers ResourceNotFoundException for an absent secret
\* unless ForceDeleteWithoutRecovery is set.
SecretNotFound(i) == i = "legacy" /\ ~cluster[DeploymentSecret].exists

\* secretsClient.DeleteSecret
CleanupDeleteSecret ==
    /\ pc = "secret"
    /\ \E fault \in BOOLEAN :
         LET h == Logged(hist, {Call("DeleteSecret", DeploymentSecret)}) IN
         IF fault \/ SecretNotFound(impl)
         THEN /\ d' = "failed to delete secret"
              /\ pc' = "done"
              /\ hist' = [h EXCEPT !.failed = phase]
              /\ UNCHANGED <<cluster, phase>>
         ELSE /\ cluster' = [cluster EXCEPT ![DeploymentSecret] = Absent]
              /\ PhaseDone(h)
              /\ d' = d
    /\ UNCHANGED <<rvClock, impl, u, retrylimits, items, clock, applyVars,
                   reconcileVars, componentVars>>

\* Another writer (the GitOps controller, a finalizer, an operator) removes
\* the object Cleanup is working on, or changes the kustomization it is
\* suspending, between its List, Get and write.
CleanupExternal ==
    /\ pc \in {"get", "write"}
    /\ hist.ext < MaxInterference
    /\ cluster[Target].exists
    /\ \/ /\ WriteOp = "suspend"
          /\ cluster' = [cluster EXCEPT ![Target] = [@ EXCEPT !.rv = rvClock + 1]]
          /\ rvClock' = rvClock + 1
       \/ /\ ExtDelete(Target)
          /\ rvClock' = rvClock
    /\ hist' = [hist EXCEPT !.ext = @ + 1]
    /\ UNCHANGED <<impl, pc, d, u, applyVars, reconcileVars, cleanupVars, componentVars>>

CleanupHist0 ==
    [ext |-> 0, calls |-> {}, ok |-> {}, failed |-> 0, listed |-> {},
     absent |-> {}, notFound |-> {}, gone |-> {}, suspended |-> {}, emptyList |-> FALSE, polls |-> 0, round |-> "none"]

\* The clusters a teardown starts on: fully installed, installed without the
\* data-plane application, only the foundational kustomizations (the
\* load balancer still there), or nothing.
Installations ==
    {[kustomizations |-> KNames, services |-> SNames],
     [kustomizations |-> KNames \ {"data-plane"}, services |-> SNames],
     [kustomizations |-> Exempt, services |-> {"istio-ingressgateway"}],
     [kustomizations |-> {}, services |-> {}]}

Stored(s) == [exists |-> TRUE, rv |-> 1, spec |-> s, extra |-> "none"]

CleanupInit ==
    /\ impl \in {"drain", "legacy"}
    /\ \E installed \in Installations,
          claims \in {{}, {"nodeclaim-1"}, Claims},
          secret \in BOOLEAN :
         /\ impl = "legacy" => claims = {}
         /\ impl = "drain" => secret
         /\ cluster = [k \in CleanupKeys |->
                         CASE k \in installed.kustomizations -> Stored("active")
                           [] k \in installed.services -> Stored(ServiceType(k))
                           [] k = OtherService -> Stored(ServiceType(k))
                           [] k \in claims -> Stored("nodeclaim")
                           [] k \in {PodOn(c) : c \in claims} -> Stored("pod")
                           [] k = DeploymentSecret /\ secret -> Stored("settings")
                           [] OTHER -> Absent]
    /\ rvClock = 1
    /\ phase = 1
    /\ pc = PhaseEntry(Phases[1].op)
    /\ d = ""
    /\ u = [rv |-> 0, spec |-> "none"]
    /\ retrylimits = 0
    /\ items = <<>>
    /\ clock = 0
    /\ hist = CleanupHist0
    /\ ApplyIdle
    /\ ReconcileIdle
    /\ ComponentIdle

CleanupNext ==
    \/ CleanupGet
    \/ CleanupWrite
    \/ CleanupList
    \/ CleanupLoop
    \/ CleanupDrain
    \/ CleanupClaimGone
    \/ CleanupConfig
    \/ CleanupDeleteSecret
    \/ CleanupExternal

SpecCleanup == CleanupInit /\ [][CleanupNext]_vars

\* The statements of Cleanup, as opposed to the steps of the other actors.
CleanupStep ==
    \/ CleanupGet
    \/ CleanupWrite
    \/ CleanupList
    \/ CleanupLoop
    \/ CleanupDrain
    \/ CleanupConfig
    \/ CleanupDeleteSecret

\* Cleanup runs on: a call that is due is made, a sleep ends.
FairSpecCleanup == SpecCleanup /\ WF_vars(CleanupStep)

----------------------------------------------------------------------------
(* DeleteAwsNode and restartNodes, invoked again after an error or a crash *)

MaxInvocations == 2

DaemonSetKey == "kube-system/aws-node DaemonSet"
ServiceAccountKey == "kube-system/aws-node ServiceAccount"
AwsNodeKeys == {DaemonSetKey, ServiceAccountKey}

\* The object the Get or Delete at hand is about.
AwsNodeKey == IF pc \in {"get_ds", "del_ds"} THEN DaemonSetKey ELSE ServiceAccountKey

\* nodeRequiresRestart after a Get that found the object (or did not).
RequiresRestart_Unset(flag, found) == flag
RequiresRestart(flag, found) == flag \/ found

\* The statement after the handling of the DaemonSet / the ServiceAccount.
AfterAwsNode(p) == IF p \in {"get_ds", "del_ds"} THEN "get_sa" ELSE "restart"

\* d.AddError(...); return
AwsNodeFails(summary, h) ==
    /\ d' = summary
    /\ pc' = "done"
    /\ hist' = [h EXCEPT !.faults = TRUE]

\* kubeClient.Get of the DaemonSet and of the ServiceAccount; a not-found
\* answer is no error.
AwsNodeGet ==
    /\ pc \in {"get_ds", "get_sa"}
    /\ \E fault \in BOOLEAN :
         IF fault
         THEN /\ AwsNodeFails("error getting aws-node DaemonSet", hist)
              /\ UNCHANGED <<awsNodeDS, awsNodeSA, nodeRequiresRestart>>
         ELSE LET found == cluster[AwsNodeKey].exists IN
              /\ awsNodeDS' = IF pc = "get_ds" THEN found ELSE awsNodeDS
              /\ awsNodeSA' = IF pc = "get_sa" THEN found ELSE awsNodeSA
              /\ nodeRequiresRestart' = RequiresRestart(nodeRequiresRestart, found)
              /\ pc' = IF found
                       THEN (IF pc = "get_ds" THEN "del_ds" ELSE "del_sa")
                       ELSE AfterAwsNode(pc)
              /\ hist' = IF found
                         THEN [hist EXCEPT !.found = @ \cup {AwsNodeKey}]
                         ELSE [hist EXCEPT !.answeredAbsent = @ \cup {AwsNodeKey}]
              /\ d' = d
    /\ UNCHANGED <<cluster, rvClock, impl, u, nodegroupsOutput, nodegroup, invocation,
                   awsNodeFrame>>

\* kubeClient.Delete of the object found; every error answer, not-found
\* included, is reported.
AwsNodeDelete ==
    /\ pc \in {"del_ds", "del_sa"}
    /\ \E fault \in BOOLEAN :
         LET h == [hist EXCEPT !.deleteIssued = @ \cup {AwsNodeKey},
                               !.gone = IF ~fault /\ ~cluster[AwsNodeKey].exists
                                        THEN @ \cup {AwsNodeKey} ELSE @]
         IN
         IF fault \/ ~cluster[AwsNodeKey].exists
         THEN /\ AwsNodeFails("error deleting aws-node DaemonSet", h)
              /\ cluster' = cluster
         ELSE /\ cluster' = [cluster EXCEPT ![AwsNodeKey] = Absent]
              /\ hist' = [h EXCEPT !.deleted = @ \cup {AwsNodeKey}, !.owed = TRUE]
              /\ pc' = AfterAwsNode(pc)
              /\ d' = d
    /\ UNCHANGED <<rvClock, impl, u, awsNodeVars, awsNodeFrame>>

\* if nodeRequiresRestart { restartNodes(...) }
AwsNodeRestart ==
    /\ pc = "restart"
    /\ IF nodeRequiresRestart
       THEN /\ pc' = "list_groups"
            /\ hist' = [hist EXCEPT !.restartCalled = TRUE]
       ELSE /\ pc' = "done"
            /\ hist' = hist
    /\ UNCHANGED <<cluster, rvClock, impl, d, u, awsNodeVars, awsNodeFrame>>

\* restartNodes has rebooted every node group: the restart is no longer owed.
RestartReturns(h) ==
    /\ pc' = "done"
    /\ hist' = [h EXCEPT !.owed = FALSE]

\* GetAwsConfig, GetKubeClusterName and eksClient.ListNodegroups
RestartListNodegroups ==
    /\ pc = "list_groups"
    /\ \E fault \in BOOLEAN :
         IF fault
         THEN /\ AwsNodeFails("error listing nodegroups", hist)
              /\ nodegroup' = nodegroup
         ELSE /\ d' = d
              /\ IF Len(nodegroupsOutput) = 0
                 THEN RestartReturns(hist) /\ nodegroup' = nodegroup
                 ELSE pc' = "list_nodes" /\ nodegroup' = 1 /\ hist' = hist
    /\ UNCHANGED <<cluster, rvClock, impl, u, awsNodeDS, awsNodeSA, nodeRequiresRestart,
                   nodegroupsOutput, invocation, awsNodeFrame>>

\* kubeClient.List of the nodes of the node group and url.Parse of their
\* provider IDs
RestartListNodes ==
    /\ pc = "list_nodes"
    /\ \E fault \in {"", "error listing nodes in nodegroup", "error parsing node provider ID"} :
         IF fault # ""
         THEN AwsNodeFails(fault, hist)
         ELSE pc' = "reboot" /\ d' = d /\ hist' = hist
    /\ UNCHANGED <<cluster, rvClock, impl, u, awsNodeVars, awsNodeFrame>>

\* ec2Client.RebootInstances for the instances of the node group
RestartReboot ==
    /\ pc = "reboot"
    /\ \E fault \in BOOLEAN :
         IF fault
         THEN /\ AwsNodeFails("error rebooting instances", hist)
              /\ nodegroup' = nodegroup
         ELSE LET h == [hist EXCEPT !.rebooted = @ \cup {nodegroupsOutput[nodegroup]}] IN
              /\ d' = d
              /\ IF nodegroup < Len(nodegroupsOutput)
                 THEN pc' = "list_nodes" /\ nodegroup' = nodegroup + 1 /\ hist' = h
                 ELSE RestartReturns(h) /\ nodegroup' = nodegroup
    /\ UNCHANGED <<cluster, rvClock, impl, u, awsNodeDS, awsNodeSA, nodeRequiresRestart,
                   nodegroupsOutput, invocation, awsNodeFrame>>

\* Another actor removes the DaemonSet or the ServiceAccount (a concurrent
\* run, an operator) or puts it back (the managed add-on).
AwsNodeExternal ==
    /\ pc \in {"get_ds", "del_ds", "get_sa", "del_sa"}
    /\ hist.ext < MaxExt
    /\ \E k \in AwsNodeKeys :
         \/ ExtDelete(k) /\ rvClock' = rvClock
         \/ ExtCreate(k) /\ rvClock' = rvClock + 1
    /\ hist' = [hist EXCEPT !.ext = @ + 1]
    /\ UNCHANGED <<impl, pc, d, u, applyVars, reconcileVars, cleanupVars, componentVars>>

AwsNodeHist0 ==
    [ext |-> 0, found |-> {}, answeredAbsent |-> {}, deleteIssued |-> {},
     deleted |-> {}, gone |-> {}, restartCalled |-> FALSE, rebooted |-> {},
     faults |-> FALSE, owed |-> FALSE, inherited |-> FALSE]

\* Create is invoked again on the same cluster, after the previous invocation
\* returned or after the provider process died at any statement.
AwsNodeAgain ==
    /\ invocation < MaxInvocations
    /\ invocation' = invocation + 1
    /\ pc' = "get_ds"
    /\ d' = ""
    /\ awsNodeDS' = FALSE /\ awsNodeSA' = FALSE /\ nodeRequiresRestart' = FALSE
    /\ nodegroup' = 0
    /\ hist' = [AwsNodeHist0 EXCEPT !.ext = hist.ext, !.owed = hist.owed,
                                    !.inherited = hist.owed]
    /\ UNCHANGED <<cluster, rvClock, impl, u, nodegroupsOutput, awsNodeFrame>>

AwsNodeInit ==
    /\ impl = "eks"
    /\ \E present \in SUBSET AwsNodeKeys :
         cluster = [k \in AwsNodeKeys |->
                      IF k \in present
                      THEN [exists |-> TRUE, rv |-> 1, spec |-> "x", extra |-> "none"]
                      ELSE Absent]
    /\ rvClock = 1
    /\ pc = "get_ds"
    /\ d = ""
    /\ u = [rv |-> 0]
    /\ awsNodeDS = FALSE /\ awsNodeSA = FALSE /\ nodeRequiresRestart = FALSE
    /\ nodegroupsOutput \in {<<>>, <<"nodegroup-1">>, <<"nodegroup-1", "nodegroup-2">>}
    /\ nodegroup = 0
    /\ invocation = 1
    /\ hist = AwsNodeHist0
    /\ ApplyIdle
    /\ ReconcileIdle
    /\ CleanupIdle
    /\ CiliumIdle
    /\ RenderIdle
    /\ CopyIdle
    /\ AccountIdle

AwsNodeNext ==
    \/ AwsNodeGet
    \/ AwsNodeDelete
    \/ AwsNodeRestart
    \/ RestartListNodegroups
    \/ RestartListNodes
    \/ RestartReboot
    \/ AwsNodeExternal
    \/ AwsNodeAgain

SpecAwsNode == AwsNodeInit /\ [][AwsNodeNext]_vars

----------------------------------------------------------------------------
(* InstallCilium: the CNI release and the wait for the nodes *)

\* retry.WithMaxDuration(time.Minute*5, retry.NewConstant(time.Second*5)),
\* in seconds.
NodeReadyMaxDuration == 300
NodeReadyBackoff == 5

CiliumRelease == "kube-system/cilium release"
Nodes == {"node-1", "node-2"}

\* The status of a node's NodeReady condition; "none" is a node that has no
\* NodeReady condition.
ConditionStatus == {"True", "False", "Unknown", "none"}

\* What a List of the nodes observes.
NodeList == {[node |-> n, ready |-> cluster[n].spec] : n \in {m \in Nodes : cluster[m].exists}}

\* The loop over nodes.Items and node.Status.Conditions: ready stays true
\* unless some node has a NodeReady condition whose status is not True.
NodesReady(nodes) == \A n \in nodes : ~(n.ready # "none" /\ n.ready # "True")

\* Whether the duration-bounded backoff of the node-ready wait stops.
NodeWaitStops_Never(t) == FALSE
NodeWaitStops(t) == NodeReadyMaxDuration - t <= 0

\* GetKubeConfig, ClusterConfigurationData, GetKubeClusterName and the
\* rendering of the values template.
CiliumPrepare ==
    /\ pc = "prepare"
    /\ \E err \in {"", "Value Conversion Error", "error parsing cilium values template",
                   "error executing cilium values template"} :
         /\ d' = err
         /\ pc' = IF err # "" THEN "returned" ELSE "install"
    /\ UNCHANGED <<cluster, rvClock, impl, u, hist, applyVars, reconcileVars, cleanupVars,
                   componentVars>>

\* The cluster after helm.InstallRelease returned without error: the release
\* is installed.
ReleaseInstalled(c) ==
    [c EXCEPT ![CiliumRelease] = [exists |-> TRUE, rv |-> rvClock + 1, spec |-> "cilium",
                                  extra |-> "none"]]

\* helm.InstallRelease(ctx, kubeConfig, "kube-system", "cilium", ...)
CiliumInstallRelease ==
    /\ pc = "install"
    /\ \E fault \in BOOLEAN :
         IF fault
         THEN /\ d' = "error installing cilium release"
              /\ pc' = "returned"
              /\ \/ cluster' = cluster
                 \/ cluster' = ReleaseInstalled(cluster)
         ELSE /\ d' = d
              /\ pc' = "wait"
              /\ cluster' = ReleaseInstalled(cluster)
    /\ rvClock' = rvClock + 1
    /\ hist' = [hist EXCEPT !.calls = @ \cup {"InstallRelease"}]
    /\ UNCHANGED <<impl, u, applyVars, reconcileVars, cleanupVars, componentVars>>

\* One attempt of the node-ready wait: List of the nodes and the check of
\* their NodeReady conditions.  A failed attempt sleeps NodeReadyBackoff and
\* runs again, until the backoff stops.  The model follows the attempts that
\* cost no time (at most MaxPolls of them) and those after which the deadline
\* has passed.
CiliumPoll ==
    /\ pc = "wait"
    /\ \E fault \in BOOLEAN :
         LET h == [hist EXCEPT !.calls = @ \cup {"List nodes"},
                               !.polls = @ + 1,
                               !.lastPoll = IF fault THEN @ ELSE NodeList,
                               !.listed = ~fault]
         IN
         IF ~fault /\ NodesReady(NodeList)
         THEN /\ pc' = "returned"
              /\ hist' = h
              /\ UNCHANGED <<d, nodeWait>>
         ELSE IF NodeWaitStops(nodeWait)
              THEN /\ d' = "timeout waiting for nodes to be ready"
                   /\ pc' = "returned"
                   /\ hist' = h
                   /\ nodeWait' = nodeWait
              ELSE /\ \E callTime \in {0, NodeReadyMaxDuration} :
                        /\ nodeWait' = Min(nodeWait + callTime
                                             + Min(NodeReadyBackoff,
                                                   NodeReadyMaxDuration - nodeWait),
                                           NodeReadyMaxDuration)
                        /\ nodeWait' < NodeReadyMaxDuration => h.polls < MaxPolls
                   /\ hist' = h
                   /\ UNCHANGED <<d, pc>>
    /\ UNCHANGED <<cluster, rvClock, impl, u, ciliumFrame>>

\* Create after InstallCilium: return on an error diagnostic, otherwise the
\* next step (UpdateClusterConfig) starts.
CreateAfterCilium ==
    /\ pc = "returned"
    /\ pc' = "done"
    /\ hist' = [hist EXCEPT !.nextStep = (d = "")]
    /\ UNCHANGED <<cluster, rvClock, impl, d, u, applyVars, reconcileVars, cleanupVars,
                   componentVars>>

\* A node posts the status of its NodeReady condition, or a node joins the
\* cluster.
NodeReports ==
    /\ pc \in {"install", "wait"}
    /\ hist.ext < MaxExt
    /\ \E n \in Nodes, s \in ConditionStatus :
         /\ ~cluster[n].exists \/ cluster[n].spec # s
         /\ cluster' = [cluster EXCEPT ![n] = [exists |-> TRUE, rv |-> rvClock + 1,
                                               spec |-> s, extra |-> "none"]]
    /\ rvClock' = rvClock + 1
    /\ hist' = [hist EXCEPT !.ext = @ + 1]
    /\ UNCHANGED <<impl, pc, d, u, applyVars, reconcileVars, cleanupVars, componentVars>>

CiliumHist0 ==
    [ext |-> 0, calls |-> {}, polls |-> 0, lastPoll |-> {}, listed |-> FALSE,
     nextStep |-> FALSE]

CiliumInit ==
    /\ impl = "eks"
    /\ \E status \in [Nodes -> ConditionStatus \cup {"absent"}] :
         cluster = [k \in Nodes \cup {CiliumRelease} |->
                      IF k \in Nodes /\ status[k] # "absent"
                      THEN [exists |-> TRUE, rv |-> 1, spec |-> status[k], extra |-> "none"]
                      ELSE Absent]
    /\ rvClock = 1
    /\ pc = "prepare"
    /\ d = ""
    /\ u = [rv |-> 0]
    /\ nodeWait = 0
    /\ hist = CiliumHist0
    /\ ApplyIdle
    /\ ReconcileIdle
    /\ CleanupIdle
    /\ AwsNodeIdle
    /\ RenderIdle
    /\ CopyIdle
    /\ AccountIdle

CiliumNext ==
    \/ CiliumPrepare
    \/ CiliumInstallRelease
    \/ CiliumPoll
    \/ CreateAfterCilium
    \/ NodeReports

SpecCilium == CiliumInit /\ [][CiliumNext]_vars

----------------------------------------------------------------------------
(* RenderAndApplyTemplate *)

MaxRefs == 2

\* The variables a manifest template may reference.
TemplateVars == {"Region", "AccountID", "ImageRepository", "ImageTag", "ProductVersion"}

\* assets/custom-credentials.yaml, as the sequence of its variable references,
\* and the map deployCustomCredentialsContiner renders it with.
CustomCredentials == <<"AccountID", "Region", "ProductVersion", "ImageRepository", "ImageTag">>
CustomCredentialsKeys == {"Region", "AccountID", "ImageRepository", "ImageTag"}

\* A template is the sequence of the variables it references (the text in
\* between does not matter to the rendering).
Templates ==
    {CustomCredentials}
      \cup UNION {[1..n -> TemplateVars] : n \in 1..MaxRefs}

ValueOf(k) == "value-of-" \o k

\* text/template with the default missingkey option: a reference to a key
\* that the map does not have is no error and prints "<no value>".
Lookup(m, k) == IF k \in DOMAIN m THEN m[k] ELSE "<no value>"

\* t.Execute(b, data): whether it fails, and the rendered document.
Execute(t, m) ==
    [err |-> \E i \in 1..Len(t) : Lookup(m, t[i]) = "error",
     out |-> [i \in 1..Len(t) |-> Lookup(m, t[i])]]

\* template.New(name).Parse(string(templateData))
RenderParse ==
    /\ pc = "parse"
    /\ \E bad \in BOOLEAN :
         IF bad
         THEN d' = "error parsing manifest template" /\ pc' = "done"
         ELSE d' = d /\ pc' = "execute"
    /\ UNCHANGED <<cluster, rvClock, impl, u, hist, renderVars, renderFrame>>

\* t.Execute(b, data)
RenderExecute ==
    /\ pc = "execute"
    /\ LET res == Execute(templateData, data) IN
       IF res.err
       THEN /\ d' = "error render manifest template"
            /\ pc' = "done"
            /\ b' = b
       ELSE /\ d' = d
            /\ pc' = "apply"
            /\ b' = res.out
    /\ UNCHANGED <<cluster, rvClock, impl, u, hist, templateData, data, renderFrame>>

\* return ApplyManifests(ctx, kubeClient, b.String()): the rendered manifest
\* is sent to the cluster.
RenderApply ==
    /\ pc = "apply"
    /\ \E fault \in BOOLEAN :
         d' = IF fault THEN "Failed to create manifest" ELSE d
    /\ hist' = [hist EXCEPT !.sent = b]
    /\ pc' = "done"
    /\ UNCHANGED <<cluster, rvClock, impl, u, renderVars, renderFrame>>

RenderInit ==
    /\ impl = "util"
    /\ templateData \in Templates
    /\ \E keys \in SUBSET TemplateVars : data = [k \in keys |-> ValueOf(k)]
    /\ b = <<>>
    /\ cluster = [k \in {} |-> Absent]
    /\ rvClock = 1
    /\ pc = "parse"
    /\ d = ""
    /\ u = [rv |-> 0]
    /\ hist = [sent |-> <<>>]
    /\ ApplyIdle
    /\ ReconcileIdle
    /\ CleanupIdle
    /\ AwsNodeIdle
    /\ CiliumIdle
    /\ CopyIdle
    /\ AccountIdle

RenderNext ==
    \/ RenderParse
    \/ RenderExecute
    \/ RenderApply

SpecRender == RenderInit /\ [][RenderNext]_vars

----------------------------------------------------------------------------
(* CopyImages *)

MaxImages == 2

\* cfg.Region, the accounts and the images of a release ("repository:tag").
Region == "us-west-2"
Accounts == {"111111111111", "222222222222"}
Images == {"api-server:v1", "api-server:v2", "dataplane-operator:v1"}
Stacks == {"prod", "dev"}

\* The cluster configurations CopyImages runs with: DeltaStream's account
\* holds the release, the dataplane's account is any account.
ClusterConfigurations ==
    {[Stack |-> s, ProductVersion |-> "1.0", DsAccountId |-> "111111111111",
      AccountId |-> a, ProductArtifactsBucket |-> "product-artifacts"] :
        s \in Stacks, a \in Accounts}

BucketName(cc) ==
    IF cc.Stack # "prod" THEN "deltastream-packages-maven" ELSE "prod-ds-packages-maven"

ImageListPath(cc) ==
    "deltastream-release-images/image-list-" \o cc.ProductVersion \o ".yaml"

ExecEngineUri(list) ==
    "release/io/deltastream/execution-engine/" \o list.ExecEngineVersion
      \o "/execution-engine-" \o list.ExecEngineVersion \o ".jar"

SourceImage(cc, img) ==
    "//" \o cc.DsAccountId \o ".dkr.ecr." \o Region \o ".amazonaws.com/" \o img

DestImage_SourceAccount(cc, img) ==
    "//" \o cc.DsAccountId \o ".dkr.ecr." \o Region \o ".amazonaws.com/" \o img
DestImage(cc, img) ==
    "//" \o cc.AccountId \o ".dkr.ecr." \o Region \o ".amazonaws.com/" \o img

\* The image-list document: the execution-engine version, then the images.
\* yaml.Unmarshal fails on a document that is no image list.
Document(version, images) == <<version>> \o images
Unmarshal(doc0) ==
    IF doc0 = <<>>
    THEN [err |-> TRUE, list |-> [Images |-> <<>>, ExecEngineVersion |-> ""]]
    ELSE [err |-> FALSE, list |-> [Images |-> Tail(doc0), ExecEngineVersion |-> Head(doc0)]]

NoObject == [exists |-> FALSE, body |-> <<>>]
NoImage == [exists |-> FALSE, content |-> "none"]

\* if err != nil { d.AddError("error copying image", ...); return }
CopyLoopStops_Never(err) == FALSE
CopyLoopStops(err) == err

\* Where CopyImages goes after the image at index i - 1: the next image, or
\* the execution-engine artifact once the range is exhausted.
AfterImage(list, i) == IF i <= Len(list.Images) THEN "copy" ELSE "download"

CopyFault(h) == [h EXCEPT !.faults = @ + 1]

\* dp.ClusterConfigurationData(ctx)
CopyGetConfig ==
    /\ pc = "config"
    /\ \E fault \in BOOLEAN :
         IF fault
         THEN /\ d' = "error reading cluster configuration"
              /\ pc' = "returned"
              /\ hist' = CopyFault(hist)
         ELSE /\ d' = d
              /\ pc' = "list"
              /\ hist' = hist
    /\ UNCHANGED <<cluster, rvClock, impl, u, copyVars, copyFrame>>

\* GetObject of the image list, io.ReadAll and yaml.Unmarshal
CopyGetImageList ==
    /\ pc = "list"
    /\ LET obj == bucket[<<BucketName(clusterConfig), ImageListPath(clusterConfig)>>]
           res == Unmarshal(obj.body)
           h == [hist EXCEPT !.calls = @ \cup {"GetObject image list"}]
       IN
       \E fault \in {"none", "get", "read"} :
         IF fault = "get" \/ ~obj.exists
         THEN /\ d' = "error getting image list"
              /\ pc' = "returned"
              /\ imageList' = imageList
              /\ hist' = IF fault = "get" THEN CopyFault(h) ELSE h
         ELSE IF fault = "read"
         THEN /\ d' = "error reading image list"
              /\ pc' = "returned"
              /\ imageList' = imageList
              /\ hist' = CopyFault(h)
         ELSE IF res.err
         THEN /\ d' = "error unmarshalling image list"
              /\ pc' = "returned"
              /\ imageList' = imageList
              /\ hist' = h
         ELSE /\ d' = d
              /\ pc' = "token"
              /\ imageList' = res.list
              /\ hist' = h
    /\ UNCHANGED <<cluster, rvClock, impl, u, clusterConfig, bucket, registry, image,
                   body, copyRun, copyFrame>>

\* client.GetAuthorizationToken and the decoding of the token; the range
\* over imageList.Images starts.
CopyGetAuthorizationToken ==
    /\ pc = "token"
    /\ \E fault \in {"none", "get", "decode"} :
         IF fault = "get"
         THEN /\ d' = "error getting authorization token"
              /\ pc' = "returned"
              /\ image' = image
              /\ hist' = CopyFault(hist)
         ELSE IF fault = "decode"
         THEN /\ d' = "error decoding authorization token"
              /\ pc' = "returned"
              /\ image' = image
              /\ hist' = CopyFault(hist)
         ELSE /\ d' = d
              /\ image' = 1
              /\ pc' = AfterImage(imageList, 1)
              /\ hist' = hist
    /\ UNCHANGED <<cluster, rvClock, impl, u, clusterConfig, bucket, registry, imageList,
                   body, copyRun, copyFrame>>

\* One iteration of the range: copyImage(ctx, imageCredContext, sourceImage,
\* destImage).  copy.Image fails when the source image does not exist or on
\* a fault; otherwise the destination reference holds the source's image.
CopyImage ==
    /\ pc = "copy"
    /\ LET img == imageList.Images[image]
           sourceImage == SourceImage(clusterConfig, img)
           destImage == DestImage(clusterConfig, img)
       IN
       \E fault \in BOOLEAN :
         LET err == fault \/ ~registry[sourceImage].exists
             h == [hist EXCEPT !.copies = Append(@, [image |-> img,
                                                     source |-> sourceImage,
                                                     dest |-> destImage,
                                                     ok |-> ~err]),
                               !.faults = IF fault THEN @ + 1 ELSE @]
         IN
         /\ hist' = h
         /\ registry' = IF err THEN registry
                        ELSE [registry EXCEPT ![destImage] = registry[sourceImage]]
         /\ IF CopyLoopStops(err)
            THEN /\ d' = "error copying image"
                 /\ pc' = "returned"
                 /\ image' = image
            ELSE /\ d' = d
                 /\ image' = image + 1
                 /\ pc' = AfterImage(imageList, image + 1)
    /\ UNCHANGED <<cluster, rvClock, impl, u, clusterConfig, bucket, imageList, body,
                   copyRun, copyFrame>>

\* GetObject of the execution-engine jar and io.ReadAll
CopyDownloadJar ==
    /\ pc = "download"
    /\ LET obj == bucket[<<BucketName(clusterConfig), ExecEngineUri(imageList)>>]
           h == [hist EXCEPT !.calls = @ \cup {"GetObject execution engine jar"}]
       IN
       \E fault \in {"none", "get", "read"} :
         IF fault = "get" \/ ~obj.exists
         THEN /\ d' = "error downloading execution engine jar"
              /\ pc' = "returned"
              /\ body' = body
              /\ hist' = IF fault = "get" THEN CopyFault(h) ELSE h
         ELSE IF fault = "read"
         THEN /\ d' = "error reading execution engine jar"
              /\ pc' = "returned"
              /\ body' = body
              /\ hist' = CopyFault(h)
         ELSE /\ d' = d
              /\ pc' = "upload"
              /\ body' = obj.body
              /\ hist' = h
    /\ UNCHANGED <<cluster, rvClock, impl, u, clusterConfig, bucket, registry, imageList,
                   image, copyRun, copyFrame>>

\* PutObject of the jar into the product artifacts bucket
CopyUploadJar ==
    /\ pc = "upload"
    /\ LET h == [hist EXCEPT !.calls = @ \cup {"PutObject execution engine jar"}] IN
       \E fault \in BOOLEAN :
         IF fault
         THEN /\ d' = "error uploading execution engine jar"
              /\ bucket' = bucket
              /\ hist' = CopyFault(h)
         ELSE /\ d' = d
              /\ bucket' = [bucket EXCEPT
                              ![<<clusterConfig.ProductArtifactsBucket,
                                  ExecEngineUri(imageList)>>] =
                                [exists |-> TRUE, body |-> body]]
              /\ hist' = h
    /\ pc' = "returned"
    /\ UNCHANGED <<cluster, rvClock, impl, u, clusterConfig, registry, imageList, image,
                   body, copyRun, copyFrame>>

\* Create after CopyImages: return on an error diagnostic, otherwise the
\* next step (InstallDeltaStream) starts.
CreateAfterCopyImages ==
    /\ pc = "returned"
    /\ pc' = "done"
    /\ hist' = [hist EXCEPT !.nextStep = (d = "")]
    /\ UNCHANGED <<cluster, rvClock, impl, d, u, applyVars, reconcileVars, cleanupVars,
                   componentVars>>

\* CopyImages is invoked again (the resource is applied again): its locals
\* start afresh, the buckets and the registries are as the last run left them.
CopyAgain ==
    /\ pc = "done"
    /\ copyRun < MaxInvocations
    /\ copyRun' = copyRun + 1
    /\ pc' = "config"
    /\ d' = ""
    /\ imageList' = [Images |-> <<>>, ExecEngineVersion |-> ""]
    /\ image' = 0
    /\ body' = <<>>
    /\ hist' = [hist EXCEPT !.copies = <<>>, !.calls = {}, !.faults = 0,
                            !.nextStep = FALSE,
                            !.last = [d |-> d, registry |-> registry]]
    /\ UNCHANGED <<cluster, rvClock, impl, u, clusterConfig, bucket, registry, copyFrame>>

References == {SourceImage(cc, i) : cc \in ClusterConfigurations, i \in Images}
                \cup {DestImage(cc, i) : cc \in ClusterConfigurations, i \in Images}

Objects(cc) ==
    {<<"deltastream-packages-maven", ImageListPath(cc)>>,
     <<"prod-ds-packages-maven", ImageListPath(cc)>>,
     <<"deltastream-packages-maven", ExecEngineUri([ExecEngineVersion |-> "2.0"])>>,
     <<"prod-ds-packages-maven", ExecEngineUri([ExecEngineVersion |-> "2.0"])>>,
     <<cc.ProductArtifactsBucket, ExecEngineUri([ExecEngineVersion |-> "2.0"])>>}

\* The release of a stack is in the packages bucket of that stack: its image
\* list and the execution-engine jar the list names.
Release(cc, images) ==
    [o \in Objects(cc) |->
       IF o = <<BucketName(cc), ImageListPath(cc)>>
       THEN [exists |-> TRUE, body |-> Document("2.0", images)]
       ELSE IF o = <<BucketName(cc), ExecEngineUri([ExecEngineVersion |-> "2.0"])>>
       THEN [exists |-> TRUE, body |-> <<"execution-engine-2.0">>]
       ELSE NoObject]

ContentOfImage(img) == "layers-of-" \o img

CopyHist0 ==
    [copies |-> <<>>, calls |-> {}, faults |-> 0, nextStep |-> FALSE,
     last |-> [d |-> "none", registry |-> <<>>]]

CopyInit ==
    /\ impl = "eks"
    /\ clusterConfig \in ClusterConfigurations
    /\ \E n \in 0..MaxImages : \E images \in [1..n -> Images] :
         bucket = Release(clusterConfig, images)
    /\ \E pushed \in SUBSET Images, stale \in BOOLEAN :
         registry = [r \in References |->
                       IF \E i \in pushed : r = SourceImage(clusterConfig, i)
                       THEN [exists |-> TRUE,
                             content |-> ContentOfImage(
                                 CHOOSE i \in pushed : r = SourceImage(clusterConfig, i))]
                       ELSE IF /\ stale
                               /\ \E i \in Images : r = DestImage(clusterConfig, i)
                               /\ \A i \in Images : r # SourceImage(clusterConfig, i)
                       THEN [exists |-> TRUE, content |-> "stale"]
                       ELSE NoImage]
    /\ imageList = [Images |-> <<>>, ExecEngineVersion |-> ""]
    /\ image = 0
    /\ body = <<>>
    /\ copyRun = 1
    /\ cluster = [k \in {} |-> Absent]
    /\ rvClock = 1
    /\ pc = "config"
    /\ d = ""
    /\ u = [rv |-> 0]
    /\ hist = [CopyHist0 EXCEPT !.last.registry = registry]
    /\ ApplyIdle
    /\ ReconcileIdle
    /\ CleanupIdle
    /\ AwsNodeIdle
    /\ CiliumIdle
    /\ RenderIdle
    /\ AccountIdle

CopyNext ==
    \/ CopyGetConfig
    \/ CopyGetImageList
    \/ CopyGetAuthorizationToken
    \/ CopyImage
    \/ CopyDownloadJar
    \/ CopyUploadJar
    \/ CreateAfterCopyImages
    \/ CopyAgain

SpecCopy == CopyInit /\ [][CopyNext]_vars

----------------------------------------------------------------------------
(* The cluster-settings Secret: updateClusterConfig (cluster-config.go)    *)

\* A terraform string value: null, unknown or known.
Null == [state |-> "null", value |-> ""]
Unknown == [state |-> "unknown", value |-> ""]
Known(s) == [state |-> "known", value |-> s]

\* basetypes.StringValue.ValueString: "" unless the value is known.
ValueString(v) == IF v.state = "known" THEN v.value ELSE ""

\* ptr.Deref(v.ValueStringPointer(), def): the pointer is nil for a null
\* value only.
DerefValueStringPointer_Nil(v, def) == IF v.state = "null" THEN "<nil>" ELSE v.value
DerefValueStringPointer(v, def) == IF v.state = "null" THEN def ELSE v.value

RECURSIVE Join(_, _)
Join(elems, sep) ==
    IF elems = <<>> THEN ""
    ELSE IF Len(elems) = 1 THEN elems[1]
    ELSE elems[1] \o sep \o Join(Tail(elems), sep)

\* url.URL.Hostname of the metrics URLs of the model.
Hostname(url) ==
    IF url = "https://metrics.deltastream.io:443" THEN "metrics.deltastream.io" ELSE ""

\* The attributes of the cluster configuration the schema requires, the
\* optional ones, and the configurations of the model.
RequiredAttributes ==
    {"Stack", "AccountId", "InfraId", "EksResourceId", "VpcId", "VpcCidr", "VpcDnsIP",
     "InterruptionQueueName", "AwsSecretsManagerRoRoleARN", "InfraManagerRoleArn",
     "VaultRoleArn", "VaultInitRoleArn", "LokiRoleArn", "TempoRoleArn",
     "ThanosStoreGatewayRoleArn", "ThanosStoreCompactorRoleArn",
     "ThanosStoreBucketRoleArn", "ThanosSidecarRoleArn", "DeadmanAlertRoleArn",
     "KarpenterNodeRoleName", "KarpenterIrsaRoleArn", "StoreProxyRoleArn",
     "Cw2LokiRoleArn", "DpManagerCpRoleArn", "DpManagerRoleArn",
     "DsCrossAccountRoleArn", "KafkaRoleArn", "AwsLoadBalancerControllerRoleARN",
     "O11yHostname", "O11ySubnetMode", "ApiHostname", "ApiSubnetMode"}
TlsModes == {"awscert", "acme"}
OptionalAttributes ==
    {"O11yTlsCertificateArn", "O11yIngressSecurityGroups", "ApiTlsCertificateArn",
     "ApiIngressSecurityGroups", "CustomCredentialsRoleARN"}
DefaultedAttributes ==
    {"WorkloadCredentialsMode", "WorkloadCredentialsSecret", "WorkloadRoleArn",
     "WorkloadManagerRoleArn"}

ClusterConfigurationsAws ==
    {[a \in RequiredAttributes \cup OptionalAttributes \cup DefaultedAttributes
           \cup {"O11yTlsMode", "ApiTlsMode", "MetricsUrl"} |->
        IF a \in RequiredAttributes THEN Known("<" \o a \o ">")
        ELSE IF a = "MetricsUrl" THEN Known("https://metrics.deltastream.io:443")
        ELSE IF a = "O11yTlsMode" THEN Known(o11y)
        ELSE IF a = "ApiTlsMode" THEN Known(api)
        ELSE IF a = "CustomCredentialsRoleARN" THEN role
        ELSE IF a \in set THEN Known("<" \o a \o ">")
        ELSE Null] :
       o11y \in TlsModes, api \in TlsModes,
       role \in {Null, Unknown, Known("arn:aws:iam::111111111111:role/custom")},
       set \in SUBSET ((OptionalAttributes \ {"CustomCredentialsRoleARN"})
                         \cup {"WorkloadCredentialsMode"})}

\* customCredentialsEnabled
CustomCredentialsEnabled(cfg) ==
    IF ~(cfg.CustomCredentialsRoleARN.state = "null"
           \/ cfg.CustomCredentialsRoleARN.state = "unknown")
    THEN "enabled"
    ELSE "disabled"

\* What DescribeKubeCluster answers and the subnet lists of the configuration.
KubeCluster ==
    [Name |-> "dp-cluster", Endpoint |-> "https://eks.example", Issuer |-> "https://oidc.example/id/ABC"]
SubnetIds == <<"subnet-1", "subnet-2">>

\* clusterConfig.Data as the mutate function of CreateOrUpdate sets it.
ClusterSettings(cfg, region) ==
    [meshID |-> "deltastream",
     stack |-> ValueString(cfg.Stack),
     cloud |-> "aws",
     region |-> region,
     topology |-> "dp",
     dsEcrAccountID |-> ValueString(cfg.AccountId),
     awsAccountID |-> ValueString(cfg.AccountId),
     infraID |-> ValueString(cfg.InfraId),
     infraName |-> "dp-" \o ValueString(cfg.InfraId),
     resourceID |-> ValueString(cfg.EksResourceId),
     clusterName |-> KubeCluster.Name,
     vpcId |-> ValueString(cfg.VpcId),
     vpcCidr |-> ValueString(cfg.VpcCidr),
     vpcPrivateSubnetIDs |-> Join(SubnetIds, ","),
     clusterPrivateSubnetIDs |-> Join(SubnetIds, ","),
     clusterPublicSubnetIDs |-> Join(SubnetIds, ","),
     discoveryRegion |-> region,
     apiServerURI |-> KubeCluster.Endpoint,
     apiServerTokenIssuer |-> KubeCluster.Issuer,
     loadbalancerClass |-> "service.k8s.aws/nlb",
     autoscaleMin |-> "3",
     autoscaleMax |-> "5",
     externalSecretsRoleARN |-> ValueString(cfg.AwsSecretsManagerRoRoleARN),
     infraOperatorRoleARN |-> ValueString(cfg.InfraManagerRoleArn),
     vaultRoleARN |-> ValueString(cfg.VaultRoleArn),
     vaultInitRoleARN |-> ValueString(cfg.VaultInitRoleArn),
     lokiRoleARN |-> ValueString(cfg.LokiRoleArn),
     tempoRoleARN |-> ValueString(cfg.TempoRoleArn),
     thanosStoreGatewayRoleARN |-> ValueString(cfg.ThanosStoreGatewayRoleArn),
     thanosStoreCompactorRoleARN |-> ValueString(cfg.ThanosStoreCompactorRoleArn),
     thanosStoreBucketWebRoleARN |-> ValueString(cfg.ThanosStoreBucketRoleArn),
     thanosSideCarRoleARN |-> ValueString(cfg.ThanosSidecarRoleArn),
     deadmanAlertRoleARN |-> ValueString(cfg.DeadmanAlertRoleArn),
     karpenterRoleName |-> ValueString(cfg.KarpenterNodeRoleName),
     karpenterIrsaARN |-> ValueString(cfg.KarpenterIrsaRoleArn),
     storeProxyRoleARN |-> ValueString(cfg.StoreProxyRoleArn),
     interruptionQueueName |-> ValueString(cfg.InterruptionQueueName),
     cw2lokiRoleARN |-> ValueString(cfg.Cw2LokiRoleArn),
     dpManagerCPAssumeRoleARN |-> ValueString(cfg.DpManagerCpRoleArn),
     dpManagerRoleARN |-> ValueString(cfg.DpManagerRoleArn),
     deltastreamCrossAccountRoleARN |-> ValueString(cfg.DsCrossAccountRoleArn),
     kafkaRoleARN |-> ValueString(cfg.KafkaRoleArn),
     awsLoadBalancerControllerRoleARN |-> ValueString(cfg.AwsLoadBalancerControllerRoleARN),
     cpPrometheusPushProxyUrl |-> ValueString(cfg.MetricsUrl),
     cpPrometheusPushProxyHost |-> Hostname(ValueString(cfg.MetricsUrl)),
     cpPrometheusPushProxyPort |-> "\"443\"",
     grafanaVpcHostname |-> ValueString(cfg.O11yHostname),
     ciliumPolicyAuditMode |-> "false",
     ciliumPolicyEnforcementMode |-> "always",
     grafanaIngressMode |-> "default",
     istioIngressMode |-> "default",
     grafanaHostname |-> ValueString(cfg.O11yHostname),
     o11yEndpointSubnet |-> ValueString(cfg.O11ySubnetMode),
     o11yTlsTermination |-> ValueString(cfg.O11yTlsMode),
     grafanaNlbCertificateArn |-> DerefValueStringPointer(cfg.O11yTlsCertificateArn, ""),
     o11yEndpointSecurityGroups |-> DerefValueStringPointer(cfg.O11yIngressSecurityGroups, ""),
     apiHostname |-> ValueString(cfg.ApiHostname),
     apiEndpointSubnet |-> ValueString(cfg.ApiSubnetMode),
     apiTlsTermination |-> ValueString(cfg.ApiTlsMode),
     apiServerNlbCertificateArn |-> DerefValueStringPointer(cfg.ApiTlsCertificateArn, ""),
     apiEndpointSecurityGroups |-> DerefValueStringPointer(cfg.ApiIngressSecurityGroups, ""),
     grafanaPromPushProxVpcHostname |-> ValueString(cfg.MetricsUrl),
     prometheusLocalTSDBRetention |-> "5d",
     prometheusMemoryLimit |-> "4Gi",
     prometheusPVCStorageSize |-> "300Gi",
     thanosQueryMemoryLimit |-> "1.2Gi",
     thanosStoreMemoryLimit |-> "1.2Gi",
     vpcDnsIP |-> ValueString(cfg.VpcDnsIP),
     workloadCredsMode |-> DerefValueStringPointer(cfg.WorkloadCredentialsMode, "iamrole"),
     dpOperatorUserAwsSecret |-> DerefValueStringPointer(cfg.WorkloadCredentialsSecret, ""),
     workloadIamRoleArn |-> DerefValueStringPointer(cfg.WorkloadRoleArn, ""),
     workloadManagerIamRoleArn |-> DerefValueStringPointer(cfg.WorkloadManagerRoleArn, ""),
     customCredentialsRoleARN |-> DerefValueStringPointer(cfg.CustomCredentialsRoleARN, ""),
     enableCustomCredentialsPlugin |-> CustomCredentialsEnabled(cfg)]

\* The attributes of the EKS resource's cluster configuration.
EksAttributes ==
    {"Stack", "AccountId", "InfraId", "InfraIndex", "ResourceId", "VpcId", "VpcCidr",
     "AwsSecretsManagerRoRoleARN", "InfraManagerRoleArn", "VaultRoleArn",
     "VaultInitRoleArn", "LokiRoleArn", "TempoRoleArn", "ThanosStoreGatewayRoleArn",
     "ThanosStoreCompactorRoleArn", "ThanosStoreBucketRoleArn", "ThanosSidecarRoleArn",
     "DeadmanAlertRoleArn", "KarpenterRoleArn", "KarpenterIrsaRoleArn",
     "StoreProxyRoleArn", "DefaultInstanceProfile", "InterruptionQueueName",
     "Cw2LokiRoleArn", "DpManagerCpRoleArn", "DpManagerRoleArn",
     "DpOperatorUserAwsSecret", "DsCrossAccountRoleArn", "ApiHostname",
     "GrafanaHostname"}

ClusterConfigurationsEks ==
    {[a \in EksAttributes \cup {"MetricsPushProxyUrl"} |->
        IF a = "Stack" THEN Known(stack)
        ELSE IF a = "MetricsPushProxyUrl" THEN metrics
        ELSE Known("<" \o a \o ">")] :
       stack \in {"prod", "dev"},
       metrics \in {Null, Known("https://metrics.deltastream.io:443")}}

\* clusterConfig.Data as UpdateClusterConfig of the EKS resource sets it.
EksClusterSettings(cfg, region, infraVersion) ==
    [meshID |-> "deltastream",
     stack |-> ValueString(cfg.Stack),
     cloud |-> "aws",
     region |-> region,
     topology |-> "dp",
     dsEcrAccountID |-> ValueString(cfg.AccountId),
     awsAccountID |-> ValueString(cfg.AccountId),
     infraID |-> ValueString(cfg.InfraId),
     infraName |-> "dp-" \o ValueString(cfg.InfraId),
     infraIndex |-> ValueString(cfg.InfraIndex),
     infraRegion |-> region,
     infraDrRegion |-> region,
     infraEnvironment |-> ValueString(cfg.Stack),
     infraCloud |-> "aws",
     infraVersion |-> infraVersion,
     resourceID |-> ValueString(cfg.ResourceId),
     clusterName |-> KubeCluster.Name,
     vpcId |-> ValueString(cfg.VpcId),
     vpcCidr |-> ValueString(cfg.VpcCidr),
     vpcPrivateSubnetIDs |-> Join(SubnetIds, ","),
     clusterPrivateSubnetIDs |-> Join(SubnetIds, ","),
     discoveryRegion |-> region,
     apiServerURI |-> KubeCluster.Endpoint,
     apiServerTokenIssuer |-> KubeCluster.Issuer,
     loadbalancerClass |-> "service.k8s.aws/nlb",
     autoscaleMin |-> "3",
     autoscaleMax |-> "5",
     externalSecretsRoleARN |-> ValueString(cfg.AwsSecretsManagerRoRoleARN),
     infraOperatorRoleARN |-> ValueString(cfg.InfraManagerRoleArn),
     vaultRoleARN |-> ValueString(cfg.VaultRoleArn),
     vaultInitRoleARN |-> ValueString(cfg.VaultInitRoleArn),
     lokiRoleARN |-> ValueString(cfg.LokiRoleArn),
     tempoRoleARN |-> ValueString(cfg.TempoRoleArn),
     thanosStoreGatewayRoleARN |-> ValueString(cfg.ThanosStoreGatewayRoleArn),
     thanosStoreCompactorRoleARN |-> ValueString(cfg.ThanosStoreCompactorRoleArn),
     thanosStoreBucketWebRoleARN |-> ValueString(cfg.ThanosStoreBucketRoleArn),
     thanosSideCarRoleARN |-> ValueString(cfg.ThanosSidecarRoleArn),
     deadmanAlertRoleARN |-> ValueString(cfg.DeadmanAlertRoleArn),
     karpenterRoleARN |-> ValueString(cfg.KarpenterRoleArn),
     karpenterIrsaARN |-> ValueString(cfg.KarpenterIrsaRoleArn),
     storeProxyRoleARN |-> ValueString(cfg.StoreProxyRoleArn),
     datagenRoleARN |-> "",
     defaultInstanceProfile |-> ValueString(cfg.DefaultInstanceProfile),
     interruptionQueueName |-> ValueString(cfg.InterruptionQueueName),
     cw2lokiRoleARN |-> ValueString(cfg.Cw2LokiRoleArn),
     nthRoleARN |-> "",
     nthCordonOnly |-> "true",
     dpManagerCPAssumeRoleARN |-> ValueString(cfg.DpManagerCpRoleArn),
     dpManagerRoleARN |-> ValueString(cfg.DpManagerRoleArn),
     dpOperatorUserAwsSecret |-> ValueString(cfg.DpOperatorUserAwsSecret),
     deltastreamCrossAccountRoleARN |-> ValueString(cfg.DsCrossAccountRoleArn),
     apiHostname |-> ValueString(cfg.ApiHostname),
     grafanaHostname |-> ValueString(cfg.GrafanaHostname),
     cpPrometheusPushProxyUrl |-> ValueString(cfg.MetricsPushProxyUrl),
     cpPrometheusPushProxyHost |-> Hostname(ValueString(cfg.MetricsPushProxyUrl)),
     cpPrometheusPushProxyPort |-> "\"443\"",
     grafanaPromPushProxVpcHostname |-> "",
     grafanaVpcHostname |-> ValueString(cfg.GrafanaHostname)]

\* The Data the running version computes from its configuration.
ComputedSettings(i, cfg) ==
    IF i = "aws" THEN ClusterSettings(cfg, Region) ELSE EksClusterSettings(cfg, Region, "v2")

\* clusterConfig.Data = map[string][]byte{...}: the mutate function assigns
\* the whole field.
SetData_Merge(old, new) == [k \in DOMAIN old \cup DOMAIN new |->
                              IF k \in DOMAIN new THEN new[k] ELSE old[k]]
SetData(old, new) == new

\* GetKubeClient (updateClusterConfig only) and CreateOrUpdate of the
\* Namespace, whose result is not looked at.
SettingsNamespace ==
    /\ pc = "namespace"
    /\ \E res \in {"ok", "apierr", "no client"} :
         /\ res = "no client" => impl = "aws"
         /\ IF res = "no client"
            THEN /\ d' = "error getting kube client"
                 /\ pc' = "returned"
            ELSE /\ d' = d
                 /\ pc' = "prepare"
         /\ IF res = "ok" /\ ~cluster[NsKey].exists
            THEN /\ cluster' = Written(NsKey, "ns")
                 /\ rvClock' = rvClock + 1
            ELSE UNCHANGED <<cluster, rvClock>>
    /\ UNCHANGED <<impl, u, hist, settingsFrame, config>>

\* ClusterConfigurationData, DescribeKubeCluster, url.Parse and the subnet
\* lists; each failure is returned as a diagnostic.
SettingsPrepare ==
    /\ pc = "prepare"
    /\ \E res \in {"ok", "configuration", "cluster", "url", "subnets"} :
         /\ d' = CASE res = "ok" -> d
                   [] res = "configuration" -> "error reading cluster configuration"
                   [] res = "cluster" -> "error getting cluster"
                   [] res = "url" -> "error parsing cpPrometheusPushProxyUrl"
                   [] OTHER -> "error reading subnet ids"
         /\ pc' = IF res = "ok" THEN "get" ELSE "returned"
    /\ UNCHANGED <<cluster, rvClock, impl, u, hist, settingsFrame, config>>

\* CreateOrUpdate of the Secret: the Get.  An error other than not-found
\* ends CreateOrUpdate; updateClusterConfig drops it.
SettingsGet ==
    /\ pc = "get"
    /\ \E res \in {"ok", "apierr"} :
         IF res = "apierr"
         THEN /\ pc' = "returned"
              /\ u' = u
         ELSE /\ pc' = "write"
              /\ u' = [rv |-> cluster[SecretKey].rv, exists |-> cluster[SecretKey].exists,
                       spec |-> cluster[SecretKey].spec]
    /\ UNCHANGED <<cluster, rvClock, impl, d, hist, settingsFrame, config>>

\* CreateOrUpdate of the Secret: the mutate function, then Create when the
\* Get answered not-found, nothing when the mutated object equals the
\* fetched one, Update otherwise.
SettingsWrite ==
    /\ pc = "write"
    /\ LET new == SetData(IF u.exists THEN u.spec ELSE <<>>, ComputedSettings(impl, config))
           h == [hist EXCEPT !.computed = ComputedSettings(impl, config),
                             !.before = IF u.exists THEN DOMAIN u.spec ELSE {}]
       IN
       \E res \in {"ok", "apierr"} :
         IF ~u.exists
         THEN IF res = "ok" /\ cluster[NsKey].exists /\ CreateAccepted(SecretKey, 0)
              THEN /\ cluster' = Written(SecretKey, new)
                   /\ rvClock' = rvClock + 1
                   /\ hist' = [h EXCEPT !.wrote = TRUE, !.after = new]
              ELSE /\ UNCHANGED <<cluster, rvClock>>
                   /\ hist' = h
         ELSE IF DOMAIN u.spec = DOMAIN new /\ u.spec = new
         THEN /\ UNCHANGED <<cluster, rvClock>>
              /\ hist' = h
         ELSE IF res = "ok" /\ UpdateAccepted(SecretKey, u.rv)
              THEN /\ cluster' = Mutated(SecretKey, new)
                   /\ rvClock' = rvClock + 1
                   /\ hist' = [h EXCEPT !.wrote = TRUE, !.after = new]
              ELSE /\ UNCHANGED <<cluster, rvClock>>
                   /\ hist' = h
    /\ pc' = "returned"
    /\ UNCHANGED <<impl, d, u, settingsFrame, config>>

\* Another writer deletes the cluster-settings Secret or changes one of its
\* values.
SettingsExternal ==
    /\ pc \in {"prepare", "get", "write"}
    /\ hist.ext < MaxExt
    /\ cluster[SecretKey].exists
    /\ \/ ExtDelete(SecretKey)
       \/ cluster' = [cluster EXCEPT ![SecretKey] =
                        [@ EXCEPT !.rv = rvClock + 1,
                                  !.spec = [@ EXCEPT !.meshID = "changed"]]]
    /\ rvClock' = rvClock + 1
    /\ hist' = [hist EXCEPT !.ext = @ + 1]
    /\ UNCHANGED <<impl, pc, d, u, settingsFrame, config>>

\* The Data a Secret holds from an earlier reconciliation, by either version
\* of the resource.
EarlierSettings ==
    {ClusterSettings(cfg, Region) :
       cfg \in {c \in ClusterConfigurationsAws :
                  /\ \A a \in DOMAIN c : c[a].state = "known"
                  /\ c.O11yTlsMode = c.ApiTlsMode}}
      \cup {EksClusterSettings(cfg, Region, "v1") :
              cfg \in {c \in ClusterConfigurationsEks :
                         \A a \in DOMAIN c : c[a].state = "known"}}

SettingsInit ==
    /\ impl \in {"aws", "eks"}
    /\ config \in (IF impl = "aws" THEN ClusterConfigurationsAws
                   ELSE ClusterConfigurationsEks)
    /\ \E ns \in BOOLEAN, old \in {<<>>} \cup EarlierSettings :
         /\ (old # <<>>) => ns
         /\ cluster = [k \in {NsKey, SecretKey} |->
                         IF k = NsKey
                         THEN (IF ns THEN [exists |-> TRUE, rv |-> 1, spec |-> "ns",
                                           extra |-> "none"]
                               ELSE Absent)
                         ELSE (IF old # <<>>
                               THEN [exists |-> TRUE, rv |-> 1, spec |-> old,
                                     extra |-> "ann"]
                               ELSE Absent)]
    /\ rvClock = 1
    /\ pc = "namespace"
    /\ d = ""
    /\ u = [rv |-> 0, exists |-> FALSE, spec |-> "none"]
    /\ hist = [ext |-> 0, computed |-> <<>>, before |-> {}, wrote |-> FALSE,
               after |-> <<>>]
    /\ op = "none" /\ step = 0
    /\ ApplyIdle
    /\ CleanupIdle
    /\ ComponentIdle

SettingsNext ==
    \/ SettingsNamespace
    \/ SettingsPrepare
    \/ SettingsGet
    \/ SettingsWrite
    \/ SettingsExternal

SpecSettings == SettingsInit /\ [][SettingsNext]_vars

----------------------------------------------------------------------------
(* The deployment-config secret: UpdateDeploymentConfig and the last step  *)
(* of Cleanup (deployment-config.go, destroy.go)                           *)

DeploymentConfigurations ==
    {[Stack |-> Known(s), InfraId |-> Known("infra1"), EksResourceId |-> Known("eks1"),
      RdsResourceID |-> Known("rds1"), AccountId |-> Known("222222222222"),
      DsRegion |-> Known(r)] :
       s \in Stacks, r \in {Region, "us-east-2"}}

ProviderSecretArn(cfg, region) ==
    "arn:aws:secretsmanager:" \o ValueString(cfg.DsRegion) \o ":secret:deltastream/"
      \o ValueString(cfg.Stack) \o "/dp/aws/" \o region \o "/deployment/"
      \o ValueString(cfg.InfraId) \o "/provider-dataplane"

RdsSecretArn(cfg, region) ==
    "arn:aws:secretsmanager:" \o region \o ":secret:deltastream/"
      \o ValueString(cfg.Stack) \o "/dp-" \o ValueString(cfg.InfraId) \o "/rds/" \o region
      \o "/" \o ValueString(cfg.RdsResourceID) \o "/db/credential-0"

calcDeploymentConfigSecretName(cfg, region) ==
    "deltastream/" \o ValueString(cfg.Stack) \o "/dp/" \o ValueString(cfg.InfraId)
      \o "/aws/" \o region \o "/" \o ValueString(cfg.EksResourceId) \o "/deployment-config"

\* The SecretId Cleanup passes to DeleteSecret.
DeleteSecretId_DsRegion(cfg, region) ==
    calcDeploymentConfigSecretName(cfg, ValueString(cfg.DsRegion))
DeleteSecretId(cfg, region) == calcDeploymentConfigSecretName(cfg, region)

\* The tags of CreateSecret.
DeploymentTags(cfg, region) ==
    [deltastream_io_region |-> region,
     deltastream_io_team |-> "true",
     deltastream_io_is_prod |-> "true",
     deltastream_io_env |-> ValueString(cfg.Stack),
     deltastream_io_id |-> ValueString(cfg.InfraId),
     deltastream_io_name |-> "dp-" \o ValueString(cfg.InfraId),
     deltastream_io_is_byoc |-> "true"]

\* A secret value is a string that is a JSON document or is not.
\* json.Unmarshal fails on the latter.
JsonUnmarshalFails_Never(value) == FALSE
JsonUnmarshalFails(value) == ~value.json

DSSecretsValue ==
    [json |-> TRUE,
     doc |-> [googleClientID |-> "gid", googleClientSecret |-> "gsecret",
              slackToken |-> "token", slackChannel |-> "channel",
              slackPingUser |-> "user", pagerdutyServiceKey |-> "key"]]
PostgresCredValue(host) ==
    [json |-> TRUE,
     doc |-> [username |-> "pg", password |-> "pw", host |-> host, port |-> "5432",
              dbClusterIdentifier |-> "db"]]
NotJson == [json |-> FALSE, doc |-> <<>>]

\* if strings.Contains(pgCred.Host, ":") { pgCred.Host = hostPort[0] }
HostWithoutPort(host) == IF host = "db.internal:5432" THEN "db.internal" ELSE host

\* The deployment config rendered from the template: the values
\* tmpl.Execute is given.
DeploymentConfig(cfg, region, dsSecrets, pgCred) ==
    [AccountID |-> ValueString(cfg.AccountId),
     Region |-> region,
     Rds |-> [pgCred EXCEPT !.host = HostWithoutPort(@)],
     DSSecret |-> dsSecrets,
     ControlPlaneRegion |-> ValueString(cfg.DsRegion),
     SerdeBucketRegion |-> ValueString(cfg.DsRegion),
     KubeClusterName |-> "dp-" \o ValueString(cfg.InfraId) \o "-" \o ValueString(cfg.Stack)
                           \o "-" \o ValueString(cfg.EksResourceId) \o "-0",
     RdsClusterName |-> "dp-" \o ValueString(cfg.InfraId) \o "-" \o ValueString(cfg.Stack)
                          \o "-" \o ValueString(cfg.RdsResourceID) \o "-db-0"]

NoSecret == [exists |-> FALSE, value |-> NotJson, tags |-> <<>>, deletion |-> "none"]

\* errors.As(err, &resourceNotFoundException) on the answer of DescribeSecret
IsResourceNotFound_AnyError(answer) == answer # "ok"
IsResourceNotFound(answer) == answer = "notfound"

DeployCall(h, call) == [h EXCEPT !.calls = Append(@, call)]

\* dp.ClusterConfigurationData(ctx)
DeployGetConfig ==
    /\ pc = "config"
    /\ \E fault \in BOOLEAN :
         IF fault
         THEN d' = "error reading cluster configuration" /\ pc' = "returned"
         ELSE d' = d /\ pc' = "dsSecret"
    /\ UNCHANGED <<cluster, rvClock, impl, u, hist, config, accountVars, accountFrame>>

\* GetSecretValue of a secret the document is rendered from, and
\* json.Unmarshal of its value.
GetSecretJson(id, name, fault) ==
    IF fault \/ ~secrets[id].exists
    THEN "unable to read " \o name
    ELSE IF JsonUnmarshalFails(secrets[id].value)
    THEN "unable to unmarshal " \o name
    ELSE ""

DeployGetDsSecret ==
    /\ pc = "dsSecret"
    /\ \E fault \in BOOLEAN :
         LET err == GetSecretJson(ProviderSecretArn(config, Region), "DeltaStream secret",
                                  fault)
         IN
         /\ d' = err
         /\ pc' = IF err = "" THEN "rdsCred" ELSE "returned"
    /\ UNCHANGED <<cluster, rvClock, impl, u, hist, config, accountVars, accountFrame>>

DeployGetRdsCred ==
    /\ pc = "rdsCred"
    /\ \E fault \in BOOLEAN :
         LET err == GetSecretJson(RdsSecretArn(config, Region), "rds credentials", fault)
         IN
         /\ d' = err
         /\ pc' = IF err = "" THEN "render" ELSE "returned"
    /\ UNCHANGED <<cluster, rvClock, impl, u, hist, config, accountVars, accountFrame>>

\* template.Parse, the four lists, GetKubeClusterName and tmpl.Execute
DeployRender ==
    /\ pc = "render"
    /\ \E fault \in {"none", "parse", "lists", "cluster name", "execute"} :
         IF fault = "none"
         THEN /\ buf' = DeploymentConfig(config, Region,
                                         secrets[ProviderSecretArn(config, Region)].value.doc,
                                         secrets[RdsSecretArn(config, Region)].value.doc)
              /\ d' = d
              /\ pc' = "describe"
         ELSE /\ buf' = buf
              /\ d' = CASE fault = "parse" -> "unable to parse deployment config template"
                        [] fault = "lists" -> "error reading kafka hosts"
                        [] fault = "cluster name" -> "error reading cluster configuration"
                        [] OTHER -> "unable to render deployment config"
              /\ pc' = "returned"
    /\ UNCHANGED <<cluster, rvClock, impl, u, hist, config, secrets, roles, roleIndex,
                   accountFrame>>

\* secretsmanagerClient.DescribeSecret
DeployDescribeSecret ==
    /\ pc = "describe"
    /\ LET name == calcDeploymentConfigSecretName(config, Region) IN
       \E fault \in BOOLEAN :
         LET answer == IF fault THEN "error"
                       ELSE IF secrets[name].exists THEN "ok" ELSE "notfound"
             h == [DeployCall(hist, "DescribeSecret") EXCEPT !.describe = answer]
         IN
         /\ hist' = h
         /\ IF answer = "ok"
            THEN d' = d /\ pc' = "put"
            ELSE IF IsResourceNotFound(answer)
            THEN d' = d /\ pc' = "create"
            ELSE d' = "unable to describe deployment config" /\ pc' = "returned"
    /\ UNCHANGED <<cluster, rvClock, impl, u, config, accountVars, accountFrame>>

\* secretsmanagerClient.CreateSecret: rejected when the name is taken.
DeployCreateSecret ==
    /\ pc = "create"
    /\ LET name == calcDeploymentConfigSecretName(config, Region) IN
       \E fault \in BOOLEAN :
         IF fault \/ secrets[name].exists
         THEN /\ d' = "unable to create deployment config"
              /\ secrets' = secrets
              /\ hist' = DeployCall(hist, "CreateSecret")
         ELSE /\ d' = d
              /\ secrets' = [secrets EXCEPT ![name] =
                               [exists |-> TRUE, value |-> buf,
                                tags |-> DeploymentTags(config, Region),
                                deletion |-> "none"]]
              /\ hist' = [DeployCall(hist, "CreateSecret") EXCEPT !.published = name]
    /\ pc' = "returned"
    /\ UNCHANGED <<cluster, rvClock, impl, u, config, buf, roles, roleIndex, accountFrame>>

\* secretsmanagerClient.PutSecretValue: rejected for an absent secret and
\* for one that is scheduled for deletion.
DeployPutSecretValue ==
    /\ pc = "put"
    /\ LET name == calcDeploymentConfigSecretName(config, Region) IN
       \E fault \in BOOLEAN :
         IF fault \/ ~secrets[name].exists \/ secrets[name].deletion = "scheduled"
         THEN /\ d' = "unable to write deployment config"
              /\ secrets' = secrets
              /\ hist' = DeployCall(hist, "PutSecretValue")
         ELSE /\ d' = d
              /\ secrets' = [secrets EXCEPT ![name] = [@ EXCEPT !.value = buf]]
              /\ hist' = [DeployCall(hist, "PutSecretValue") EXCEPT !.published = name]
    /\ pc' = "returned"
    /\ UNCHANGED <<cluster, rvClock, impl, u, config, buf, roles, roleIndex, accountFrame>>

\* Cleanup of the same dataplane, later: it returns before its last step on
\* an earlier failure; otherwise ClusterConfigurationData and DeleteSecret,
\* with ForceDeleteWithoutRecovery in deployment-config.go ("drain") and
\* without it in destroy.go ("legacy"), where an absent secret is an error
\* and a present one is scheduled for deletion.
DeployCleanupDeleteSecret ==
    /\ pc = "returned"
    /\ LET id == DeleteSecretId(config, Region) IN
       \E res \in {"ok", "earlier failure", "fault"} :
         IF res = "earlier failure"
         THEN /\ hist' = [hist EXCEPT !.cleanup = "failed"]
              /\ secrets' = secrets
         ELSE IF res = "fault" \/ (impl = "legacy" /\ ~secrets[id].exists)
         THEN /\ hist' = [hist EXCEPT !.cleanup = "failed", !.deleted = id]
              /\ secrets' = secrets
         ELSE /\ hist' = [hist EXCEPT !.cleanup = "ok", !.deleted = id]
              /\ secrets' = [secrets EXCEPT ![id] =
                               IF impl = "legacy"
                               THEN [@ EXCEPT !.deletion = "scheduled"]
                               ELSE NoSecret]
    /\ pc' = "done"
    /\ UNCHANGED <<cluster, rvClock, impl, d, u, config, buf, roles, roleIndex,
                   accountFrame>>

\* Another writer creates or deletes the deployment-config secret while
\* UpdateDeploymentConfig runs.
DeployExternal ==
    /\ pc \in {"describe", "create", "put"}
    /\ hist.ext < MaxExt
    /\ LET name == calcDeploymentConfigSecretName(config, Region) IN
       secrets' = [secrets EXCEPT ![name] =
                     IF @.exists THEN NoSecret
                     ELSE [exists |-> TRUE, value |-> NotJson, tags |-> <<>>,
                           deletion |-> "none"]]
    /\ hist' = [hist EXCEPT !.ext = @ + 1]
    /\ UNCHANGED <<cluster, rvClock, impl, pc, d, u, config, buf, roles, roleIndex,
                   accountFrame>>

SecretIds(cfg) ==
    {ProviderSecretArn(cfg, Region), RdsSecretArn(cfg, Region)}
      \cup {calcDeploymentConfigSecretName(cfg, r) : r \in {Region, "us-east-2"}}

DeployInit ==
    /\ impl \in {"drain", "legacy"}
    /\ config \in DeploymentConfigurations
    /\ \E ds \in {NoSecret.value, DSSecretsValue},
          pg \in {NotJson, PostgresCredValue("db.internal"),
                  PostgresCredValue("db.internal:5432")},
          missing \in SUBSET {"ds", "pg"},
          old \in {"absent", "present", "scheduled"} :
         secrets = [id \in SecretIds(config) |->
                      IF id = ProviderSecretArn(config, Region)
                      THEN (IF "ds" \in missing THEN NoSecret
                            ELSE [NoSecret EXCEPT !.exists = TRUE, !.value = ds])
                      ELSE IF id = RdsSecretArn(config, Region)
                      THEN (IF "pg" \in missing THEN NoSecret
                            ELSE [NoSecret EXCEPT !.exists = TRUE, !.value = pg])
                      ELSE IF id = calcDeploymentConfigSecretName(config, Region)
                              /\ old # "absent"
                      THEN [exists |-> TRUE, value |-> NotJson,
                            tags |-> DeploymentTags(config, Region),
                            deletion |-> IF old = "scheduled" THEN "scheduled" ELSE "none"]
                      ELSE NoSecret]
    /\ buf = <<>>
    /\ roles = <<>>
    /\ roleIndex = 0
    /\ pc = "config"
    /\ d = ""
    /\ u = [rv |-> 0]
    /\ cluster = [k \in {} |-> Absent]
    /\ rvClock = 1
    /\ hist = [ext |-> 0, calls |-> <<>>, describe |-> "none", published |-> "",
               cleanup |-> "none", deleted |-> "", initial |-> secrets]
    /\ op = "none" /\ step = 0
    /\ ApplyIdle
    /\ CleanupIdle
    /\ AwsNodeIdle
    /\ CiliumIdle
    /\ RenderIdle
    /\ CopyIdle

DeployNext ==
    \/ DeployGetConfig
    \/ DeployGetDsSecret
    \/ DeployGetRdsCred
    \/ DeployRender
    \/ DeployDescribeSecret
    \/ DeployCreateSecret
    \/ DeployPutSecretValue
    \/ DeployCleanupDeleteSecret
    \/ DeployExternal

SpecDeployment == DeployInit /\ [][DeployNext]_vars

----------------------------------------------------------------------------
(* Properties of the apply primitive *)

\* The step in which the current document's write is accepted.
DocWritten == pc \in {"create", "update"} /\ (doc' = doc + 1 \/ pc' = "done")

\* C1: util.ApplyManifests, per document: an Update is rejected as stale only
\* when another writer changed the object after this attempt's Get (every
\* attempt writes with the resource version of its own fresh Get); the apply
\* ends with an error only after the 5 retries are used up (6 failed attempts);
\* and the accepted write leaves the manifest's content in the stored object.
C1_ConflictRetriedWithFreshRead ==
    /\ [](impl = "util" =>
            /\ ~hist.staleConflict
            /\ (pc = "failed" => attempt = MaxRetries /\ d = "Failed to create manifest"))
    /\ [][(impl = "util" /\ DocWritten) =>
            /\ cluster'[CurDoc.key].exists
            /\ cluster'[CurDoc.key].spec = CurDoc.spec
            /\ d' = ""]_vars

\* C1 witness: an apply that met a conflict, retried and ended without error,
\* the stored object carrying the manifest's content.
C1_Witness ==
    /\ impl = "util"
    /\ pc = "done"
    /\ d = ""
    /\ hist.conflicts
    /\ cluster[hist.lastWrite.key].spec = hist.lastWrite.spec

\* C2: eksdataplane.applyManifests: one modification of the object by another
\* writer between the Get and the Update (and no other failure) does not make
\* the apply end with an error.
C2_SingleConflictTolerated ==
    (impl = "eks" /\ hist.ext <= 1 /\ hist.extKinds \subseteq {"modify"} /\ ~hist.faults)
        => pc # "failed"

\* C3: the second of two applies of the same manifest, nothing else writing
\* and no call failing, ends without error, creates nothing (every document
\* takes the update path) and leaves every object with the content it had
\* after the first apply.
C3_SecondApplyIdempotent ==
    (run = 2 /\ pc \in {"done", "failed"} /\ hist.ext = 0 /\ ~hist.faults) =>
        /\ pc = "done"
        /\ d = ""
        /\ ~hist.created
        /\ \A k \in Keys :
             /\ cluster[k].exists = hist.after1[k].exists
             /\ cluster[k].spec = hist.after1[k].spec
             /\ cluster[k].extra = hist.after1[k].extra

\* C3 witness: a second apply of a manifest of two documents that ended, with
\* no other writer and no failed call.
C3_Witness ==
    /\ run = 2
    /\ pc = "done"
    /\ hist.ext = 0
    /\ ~hist.faults
    /\ Len(manifestYamls) >= 2
    /\ \A i \in 1..Len(manifestYamls) : cluster[manifestYamls[i].key].exists

----------------------------------------------------------------------------
(* Properties of Create and Update *)

IsPrefix(s, t) == Len(s) <= Len(t) /\ \A i \in 1..Len(s) : s[i] = t[i]

\* Every component but the last one started has returned without error, and
\* an error diagnostic ends the reconciliation.
RunsOneAfterTheOther ==
    /\ Len(hist.results) \in {Len(hist.calls), Len(hist.calls) - 1}
    /\ \A i \in 1..Len(hist.results) : i < Len(hist.calls) => hist.results[i] = "ok"
    /\ (\E i \in 1..Len(hist.results) : hist.results[i] = "err") => (pc = "done" /\ d # "")
    /\ d # "" => pc = "done"

NetworkLayerFirst ==
    <<"DeleteAwsNode", "InstallCilium", "UpdateClusterConfig", "CopyImages",
      "InstallDeltaStream">>

ImageMirrorFirst ==
    <<"CopyImages", "DeleteAwsNode", "InstallCilium", "UpdateClusterConfig",
      "InstallDeltaStream">>

\* C4 as stated: every Create runs DeleteAwsNode, InstallCilium,
\* UpdateClusterConfig, CopyImages, InstallDeltaStream in this order, each after
\* the previous one returned without error, the first error ending the run.
C4_EveryCreateNetworkLayerFirst ==
    op = "Create" => (IsPrefix(hist.calls, NetworkLayerFirst) /\ RunsOneAfterTheOther)

\* C4 amended: the Create of part_006 runs the components in that order; the
\* Create of AWSDataplaneResource and of internal/provider run CopyImages first,
\* then DeleteAwsNode, InstallCilium, UpdateClusterConfig, InstallDeltaStream;
\* in each, a component starts only after the previous one returned without
\* error and the first error diagnostic ends the reconciliation.
C4_CreateOrderPerVersion ==
    op = "Create" =>
        /\ IsPrefix(hist.calls, IF impl = "eks2" THEN NetworkLayerFirst ELSE ImageMirrorFirst)
        /\ RunsOneAfterTheOther

\* C4 witness: a Create of AWSDataplaneResource that ran all five components.
C4_Witness ==
    /\ op = "Create"
    /\ impl = "aws"
    /\ pc = "done"
    /\ d = ""
    /\ hist.calls = ImageMirrorFirst
    /\ Len(hist.results) = 5

\* C5: when InstallDeltaStream is about to apply its first manifest (and no
\* other writer touched the Secret since UpdateClusterConfig returned), the
\* Secret cluster-settings exists and holds the settings of the configuration
\* being applied.
C5_SettingsPublishedBeforeInstall ==
    (op \in {"Create", "Update"} /\ pc = "step" /\ CurStep = "InstallDeltaStream"
        /\ ~hist.extSinceUcc)
        => (cluster[SecretKey].exists /\ cluster[SecretKey].spec = Settings(config))

\* C6: once UpdateClusterConfig has returned, a failed create-or-update of the
\* Namespace or of the Secret has left an error diagnostic (so that no later
\* step runs).
C6_FailedSettingsWriteReported ==
    (op \in {"Create", "Update"} /\ hist.uccDone /\ hist.couFailed) => d # ""

----------------------------------------------------------------------------
(* Properties of Cleanup *)

Issued(c, t) == \E x \in hist.calls : x.call = c /\ x.target = t

\* The phase has been entered / has returned without error.
Started(p) == \E i \in 1..phase : Phases[i] = p
ReturnedOk(p) == \E i \in hist.ok : Phases[i] = p

\* C7: in both versions of Cleanup no Delete of a LoadBalancer Service of
\* istio-system is issued before suspendKustomization("istio") has returned
\* without error (the kustomization written with suspend=true or found
\* absent), and suspendKustomization("infra") is not started before
\* deleteKustomization("data-plane") has returned without error.
C7_SuspendBeforeLoadBalancers ==
    /\ (\E s \in SNames : Issued("Delete", s))
         => /\ ReturnedOk(Phase("suspend", "istio"))
            /\ "istio" \in hist.suspended \cup hist.absent
    /\ Started(Phase("suspend", "infra")) => ReturnedOk(Phase("delete", "data-plane"))

C7_Witness ==
    /\ Issued("Delete", "istio-ingressgateway")
    /\ "istio" \in hist.suspended
    /\ Issued("Delete", "data-plane")
    /\ Issued("Update", "infra")

\* The summaries a failing phase reports.
PhaseErrors(p) ==
    CASE p.op = "suspend" ->
           {"failed to get " \o p.name \o " kustomization", "failed to suspend " \o p.name}
      [] p.op = "delete" ->
           {"failed to get " \o p.name \o " kustomization",
            "failed to delete " \o p.name \o " kustomization"}
      [] p.op = "listServices" -> {"failed to list loadbalancer services"}
      [] p.op = "deleteLoadBalancers" -> {"failed to delete loadbalancer " \o n : n \in SNames}
      [] p.op = "listKustomizations" -> {"failed to list kustomizations"}
      [] p.op = "deleteListed" ->
           {"failed to get " \o n \o " kustomization" : n \in KNames}
             \cup {"failed to delete " \o n \o " kustomization" : n \in KNames}
      [] p.op = "drain" -> {"failed while waiting for node claims to be cleaned up"}
      [] p.op = "config" -> {"Value Conversion Error"}
      [] OTHER -> {"failed to delete secret"}

\* C8: when a phase of Cleanup fails, Cleanup ends with the error diagnostic
\* of that phase and no remote call of a later phase is made; after a failed
\* drain wait the deployment-config secret is not deleted.
C8_FailureStopsTeardown ==
    hist.failed # 0
      => /\ d \in PhaseErrors(Phases[hist.failed])
         /\ \A c \in hist.calls : c.phase <= hist.failed
         /\ ~Issued("DeleteSecret", DeploymentSecret) \/ Phases[hist.failed].op = "deleteSecret"
         /\ pc = "done" \/ (Phases[hist.failed].op = "drain" /\ pc = "config")

C8_Witness ==
    /\ pc = "done"
    /\ hist.failed # 0
    /\ Phases[hist.failed].op = "drain"
    /\ cluster[DeploymentSecret].exists
    /\ Issued("Delete", "data-plane")

\* C9: in the version with the drain wait, DeleteSecret is issued only after a
\* List of the node claims returned no item; an attempt that lists node claims
\* and completes its calls has deleted every pod on the listed claims' nodes
\* and is followed by another attempt DrainBackoff later, unless
\* DrainMaxDuration has elapsed, and then (and only then) the drain wait
\* reports its error.
C9_SecretDeletedAfterDrain ==
    /\ [](Issued("DeleteSecret", DeploymentSecret) /\ impl = "drain" => hist.emptyList)
    /\ [][(pc = "drain" /\ hist'.polls = hist.polls + 1)
            => LET listedClaims == {c \in Claims : cluster[c].exists} IN
               /\ (hist'.round = "full" /\ listedClaims # {})
                    => /\ \A c \in listedClaims : ~cluster'[PodOn(c)].exists
                       /\ IF clock >= DrainMaxDuration
                          THEN d' = "failed while waiting for node claims to be cleaned up"
                          ELSE /\ pc' = "drain" /\ d' = d
                               /\ clock' >= clock + DrainBackoff
               /\ (d' # d) => clock >= DrainMaxDuration
               /\ (pc' # "drain" /\ d' = d) => listedClaims = {}]_vars

C9_Witness ==
    /\ d = "failed while waiting for node claims to be cleaned up"
    /\ clock >= DrainMaxDuration
    /\ hist.polls > MaxPolls
    /\ Issued("Delete", PodOn("nodeclaim-2"))
    /\ cluster["nodeclaim-2"].exists

Foundational ==
    {"infra", "cilium", "cilium-cluster-policies", "karpenter", "kyverno",
     "kyverno-policies"}

\* C10 as stated: the version with the drain wait never issues a Delete for
\* infra, cilium, cilium-cluster-policies, karpenter, kyverno or
\* kyverno-policies, and once its loop over the listed kustomizations has
\* returned without error a Delete has been issued for every other listed
\* kustomization.
C10_EveryListedDeleted ==
    impl = "drain"
      => /\ \A n \in Foundational : ~Issued("Delete", n)
         /\ ReturnedOk(Phase("deleteListed", ""))
              => \A n \in hist.listed \ Foundational : Issued("Delete", n)

\* C10 amended: ... a Delete has been issued for every other listed
\* kustomization that deleteKustomization's own Get still found; one that is
\* gone by then is passed over without a Delete and without an error.
C10_EveryListedStillFoundDeleted ==
    impl = "drain"
      => /\ \A n \in Foundational : ~Issued("Delete", n)
         /\ ReturnedOk(Phase("deleteListed", ""))
              => \A n \in hist.listed \ Foundational :
                   Issued("Delete", n) \/ n \in hist.absent

C10_Witness ==
    /\ impl = "drain"
    /\ ReturnedOk(Phase("deleteListed", ""))
    /\ "karpenter" \in hist.listed
    /\ cluster["karpenter"].exists
    /\ \E n \in hist.listed \ Foundational : n \in hist.absent /\ ~Issued("Delete", n)
    /\ \E n \in hist.listed \ Foundational : Issued("Delete", n)

\* A write of the object t was issued in phase i.
WriteIssued(i, t) ==
    \E x \in hist.calls : x.phase = i /\ x.target = t /\ x.call \in {"Update", "Delete"}

\* The phase i has not ended with an error about the kustomization t.
NoErrorAbout(i, t) ==
    /\ Phases[i].op \in {"suspend", "delete"} => i \in hist.ok
    /\ hist.failed = i
         => d \notin {"failed to get " \o t \o " kustomization",
                      "failed to delete " \o t \o " kustomization",
                      "failed to suspend " \o t}

\* C11: when the Get of deleteKustomization or suspendKustomization answers
\* not-found, the function returns without error and without a write; when
\* the Delete of deleteKustomization answers not-found (the kustomization
\* disappeared after the Get), it returns without error.
C11_AbsentKustomizationIsNoError ==
    /\ \A a \in hist.notFound :
         ~WriteIssued(a.phase, a.target) /\ NoErrorAbout(a.phase, a.target)
    /\ \A g \in hist.gone :
         Phases[g.phase].op # "deleteLoadBalancers" => NoErrorAbout(g.phase, g.target)

\* Cleanup on a cluster without the data-plane kustomization ran to its end
\* without error, and a kustomization disappeared between Get and Delete.
C11_Witness ==
    /\ pc = "done" /\ d = ""
    /\ \E a \in hist.notFound :
         a.target = "data-plane" /\ Phases[a.phase] = Phase("delete", "data-plane")
    /\ \E g \in hist.gone : g.target \in KNames

----------------------------------------------------------------------------
(* Properties of DeleteAwsNode *)

\* C12 (counterexample): a Delete of the aws-node DaemonSet or ServiceAccount
\* that is answered not-found (the object is already absent) does not end
\* DeleteAwsNode with an error diagnostic.
C12_AbsentAtDeleteIsNoError ==
    hist.gone # {} => d # "error deleting aws-node DaemonSet"

\* C13 (counterexample): an invocation that follows one which deleted the
\* DaemonSet or the ServiceAccount without rebooting every node group does
\* not return without error before the reboots have been issued.
C13_OwedRestartNotLost ==
    (pc = "done" /\ d = "") => ~hist.owed

\* C14: restartNodes is called only if an object was found present in this
\* invocation and a Delete is issued only for an object found present; an
\* invocation that returns without error has deleted each object it found,
\* and has called restartNodes (rebooting every node group) if and only if it
\* found one; when both Gets answer not-found it returns without error, with
\* no Delete and no reboot.
C14_RestartIffFoundPresent ==
    /\ hist.restartCalled => hist.found # {}
    /\ hist.rebooted # {} => hist.restartCalled
    /\ hist.deleteIssued \subseteq hist.found
    /\ (pc = "done" /\ d = "")
         => /\ hist.restartCalled <=> hist.found # {}
            /\ hist.found \subseteq hist.deleted
            /\ hist.restartCalled
                 => hist.rebooted = {nodegroupsOutput[i] : i \in 1..Len(nodegroupsOutput)}
    /\ hist.answeredAbsent = AwsNodeKeys
         => /\ pc \in {"restart", "done"}
            /\ d = ""
            /\ hist.deleteIssued = {}
            /\ ~hist.restartCalled
            /\ hist.rebooted = {}

C14_Witness ==
    /\ pc = "done" /\ d = ""
    /\ hist.found = {ServiceAccountKey}
    /\ hist.answeredAbsent = {DaemonSetKey}
    /\ hist.deleted = {ServiceAccountKey}
    /\ hist.rebooted = {"nodegroup-1", "nodegroup-2"}

----------------------------------------------------------------------------
(* Properties of InstallCilium *)

\* C15 (counterexample): InstallCilium returns without error only if its last
\* List of the nodes observed every node with a NodeReady condition of
\* status True.
C15_ReturnsOnlyWhenAllNodesReady ==
    (pc \in {"returned", "done"} /\ d = "" /\ hist.polls > 0)
      => hist.listed /\ \A n \in hist.lastPoll : n.ready = "True"

\* C16: the node-ready wait reports 'timeout waiting for nodes to be ready'
\* when an attempt fails after NodeReadyMaxDuration has elapsed, and only
\* then; before that a failed attempt is followed by another one
\* NodeReadyBackoff later.  After the timeout the release is still installed,
\* no call other than the install and the polls was made, and Create runs no
\* further step.
C16_NodeWaitTimeoutLeavesRelease ==
    /\ [](d = "timeout waiting for nodes to be ready"
            => /\ nodeWait >= NodeReadyMaxDuration
               /\ cluster[CiliumRelease].exists
               /\ hist.calls = {"InstallRelease", "List nodes"}
               /\ ~hist.nextStep
               /\ pc \in {"returned", "done"})
    /\ [][(pc = "wait" /\ hist'.polls = hist.polls + 1 /\ pc' = "wait")
            => nodeWait < NodeReadyMaxDuration /\ nodeWait' >= nodeWait + NodeReadyBackoff
               /\ d' = d]_vars
    /\ [][(pc = "wait" /\ hist'.polls = hist.polls + 1 /\ nodeWait >= NodeReadyMaxDuration
             /\ ~(hist'.listed /\ NodesReady(hist'.lastPoll)))
            => d' = "timeout waiting for nodes to be ready" /\ pc' = "returned"]_vars

C16_Witness ==
    /\ pc = "done"
    /\ d = "timeout waiting for nodes to be ready"
    /\ hist.polls > MaxPolls
    /\ hist.listed
    /\ \E n \in hist.lastPoll : n.ready = "False"
    /\ cluster[CiliumRelease].exists

----------------------------------------------------------------------------
(* Termination *)

----------------------------------------------------------------------------
(* Properties of RenderAndApplyTemplate *)

Unresolved == {templateData[i] : i \in 1..Len(templateData)} \ DOMAIN data

\* C18 (counterexample): when the template references a variable that is not
\* a key of the map, RenderAndApplyTemplate returns a templating error and no
\* manifest is sent to the cluster.
C18_UnresolvedVariableFailsClosed ==
    (Unresolved # {} /\ pc \in {"apply", "done"})
      => /\ d \in {"error parsing manifest template", "error render manifest template"}
         /\ hist.sent = <<>>

----------------------------------------------------------------------------
(* Properties of CopyImages *)

\* The reference of an image in the ECR registry of an account.
EcrReference(account, img) ==
    "//" \o account \o ".dkr.ecr." \o Region \o ".amazonaws.com/" \o img

CopyReturned == pc \in {"returned", "done"}

\* The images at the destination: the registry of the dataplane's account.
AtDestination(reg) ==
    [i \in Images |-> reg[EcrReference(clusterConfig.AccountId, i)]]

\* C19: after CopyImages returns without error, every entry of the downloaded
\* image list was copied from DeltaStream's registry to the account's
\* registry under the identical image string, and the destination holds the
\* source's image under that string; a second run on the same list in which
\* no call fails returns no error and leaves the same images at the
\* destination.
C19_EveryListedImageCopied ==
    /\ (CopyReturned /\ d = "") =>
         \A i \in 1..Len(imageList.Images) :
           LET img == imageList.Images[i]
               src == EcrReference(clusterConfig.DsAccountId, img)
               dst == EcrReference(clusterConfig.AccountId, img)
           IN
           /\ imageList.Images =
                Tail(bucket[<<BucketName(clusterConfig), ImageListPath(clusterConfig)>>].body)
           /\ Len(hist.copies) = Len(imageList.Images)
           /\ hist.copies[i] = [image |-> img, source |-> src, dest |-> dst, ok |-> TRUE]
           /\ registry[src].exists
           /\ registry[dst] = registry[src]
    /\ (CopyReturned /\ copyRun > 1 /\ hist.last.d = "" /\ hist.faults = 0) =>
         /\ d = ""
         /\ AtDestination(registry) = AtDestination(hist.last.registry)

C19_Witness ==
    /\ pc = "returned"
    /\ d = ""
    /\ copyRun = 2
    /\ hist.last.d = ""
    /\ hist.faults = 0
    /\ clusterConfig.AccountId # clusterConfig.DsAccountId
    /\ Len(imageList.Images) = 2
    /\ imageList.Images[1] # imageList.Images[2]
    /\ Len(hist.copies) = 2

\* C20: when the copy of the k-th image fails, it is the last copy attempted,
\* the execution-engine artifact is neither downloaded nor uploaded,
\* CopyImages returns the 'error copying image' diagnostic (and Create stops),
\* and the images copied before the failure are at the destination.
C20_FailedCopyStopsCopyImages ==
    \A k \in 1..Len(hist.copies) :
      /\ hist.copies[k].image = imageList.Images[k]
      /\ ~hist.copies[k].ok =>
           /\ k = Len(hist.copies)
           /\ CopyReturned
           /\ d = "error copying image"
           /\ ~hist.nextStep
           /\ hist.calls \cap {"GetObject execution engine jar",
                               "PutObject execution engine jar"} = {}
           /\ \A j \in 1..(k - 1) :
                /\ registry[hist.copies[j].dest].exists
                /\ registry[hist.copies[j].dest].content
                     = ContentOfImage(hist.copies[j].image)

C20_Witness ==
    /\ pc = "done"
    /\ Len(hist.copies) = 2
    /\ hist.copies[1].ok
    /\ ~hist.copies[2].ok
    /\ hist.copies[1].dest # hist.copies[1].source
    /\ Len(imageList.Images) = 2

----------------------------------------------------------------------------
(* Properties of the cluster-settings Secret *)

SettingsComputed == DOMAIN hist.computed # {}

\* C21: in the settings updateClusterConfig publishes, an unset
\* custom_credentials_role_arn gives customCredentialsRoleARN = "" and the
\* flag enableCustomCredentialsPlugin reading false; a set one gives the flag
\* reading true and the configured value verbatim.
C21_CustomCredentialsFlagIsBoolean ==
    (impl = "aws" /\ SettingsComputed) =>
      LET role == config.CustomCredentialsRoleARN IN
      /\ role.state = "null" =>
           /\ hist.computed.customCredentialsRoleARN = ""
           /\ hist.computed.enableCustomCredentialsPlugin = "false"
      /\ role.state = "known" =>
           /\ hist.computed.customCredentialsRoleARN = role.value
           /\ hist.computed.enableCustomCredentialsPlugin = "true"

\* The optional attributes and the settings they are published under.
OptionalSettings ==
    {<<"O11yTlsCertificateArn", "grafanaNlbCertificateArn">>,
     <<"ApiTlsCertificateArn", "apiServerNlbCertificateArn">>,
     <<"O11yIngressSecurityGroups", "o11yEndpointSecurityGroups">>,
     <<"ApiIngressSecurityGroups", "apiEndpointSecurityGroups">>,
     <<"CustomCredentialsRoleARN", "customCredentialsRoleARN">>}

\* C22: the settings computed by updateClusterConfig have the same keys for
\* every configuration; an optional attribute that is unset is published as
\* the empty string; with both TLS modes "acme" and no certificate ARNs both
\* TLS-termination settings read "acme" and both certificate settings are
\* empty.
C22_FixedKeysUnsetIsEmpty ==
    (impl = "aws" /\ SettingsComputed) =>
      /\ \A c \in ClusterConfigurationsAws :
           DOMAIN hist.computed = DOMAIN ClusterSettings(c, Region)
      /\ \A o \in OptionalSettings :
           /\ o[2] \in DOMAIN hist.computed
           /\ config[o[1]].state = "null" => hist.computed[o[2]] = ""
      /\ (/\ config.ApiTlsMode = Known("acme") /\ config.O11yTlsMode = Known("acme")
          /\ config.ApiTlsCertificateArn = Null /\ config.O11yTlsCertificateArn = Null)
           => /\ hist.computed.apiTlsTermination = "acme"
              /\ hist.computed.o11yTlsTermination = "acme"
              /\ hist.computed.apiServerNlbCertificateArn = ""
              /\ hist.computed.grafanaNlbCertificateArn = ""

C22_Witness ==
    /\ impl = "aws"
    /\ SettingsComputed
    /\ config.ApiTlsMode = Known("acme") /\ config.O11yTlsMode = Known("acme")
    /\ \A o \in OptionalSettings : config[o[1]] = Null

\* C23: after a successful write the Data of the cluster-settings Secret is
\* exactly the map computed in this reconciliation: every key of the map has
\* its computed value and no key stored before and absent from the map is
\* left.
C23_DataFullyReplaced ==
    hist.wrote =>
      /\ DOMAIN hist.after = DOMAIN hist.computed
      /\ \A k \in DOMAIN hist.computed : hist.after[k] = hist.computed[k]
      /\ hist.computed.stack = ValueString(config.Stack)
      /\ (hist.before \ DOMAIN hist.computed) \cap DOMAIN hist.after = {}
      /\ pc = "returned" =>
           /\ cluster[SecretKey].exists
           /\ DOMAIN cluster[SecretKey].spec = DOMAIN hist.computed
           /\ \A k \in DOMAIN hist.computed : cluster[SecretKey].spec[k] = hist.computed[k]

C23_Witness ==
    /\ hist.wrote
    /\ pc = "returned"
    /\ hist.before \ DOMAIN hist.computed # {}
    /\ hist.ext > 0

----------------------------------------------------------------------------
(* Properties of the deployment-config secret *)

DeployIssued(call) == \E i \in 1..Len(hist.calls) : hist.calls[i] = call
DeployReturned == pc \in {"returned", "done"}
DeploymentSecretName ==
    "deltastream/" \o config.Stack.value \o "/dp/" \o config.InfraId.value \o "/aws/"
      \o Region \o "/" \o config.EksResourceId.value \o "/deployment-config"

\* C24: UpdateDeploymentConfig issues CreateSecret, with the fixed tags,
\* exactly when DescribeSecret answered resource-not-found, PutSecretValue
\* exactly when DescribeSecret succeeded, and no write when DescribeSecret
\* failed otherwise; after a run without error the secret's value is the
\* document rendered in this run.
C24_WriteFollowsDescribe ==
    /\ DeployIssued("CreateSecret") => hist.describe = "notfound"
    /\ DeployIssued("PutSecretValue") => hist.describe = "ok"
    /\ DeployReturned =>
         /\ hist.describe = "notfound" => DeployIssued("CreateSecret")
         /\ hist.describe = "ok" => DeployIssued("PutSecretValue")
         /\ hist.describe \in {"error", "none"} =>
              /\ ~DeployIssued("CreateSecret") /\ ~DeployIssued("PutSecretValue")
              /\ d # ""
    /\ (pc = "returned" /\ d = "") =>
         /\ secrets[DeploymentSecretName].exists
         /\ secrets[DeploymentSecretName].value = buf
         /\ buf.Rds.host = "db.internal"
         /\ buf.DSSecret = DSSecretsValue.doc
         /\ DeployIssued("CreateSecret") =>
              secrets[DeploymentSecretName].tags =
                [deltastream_io_region |-> Region,
                 deltastream_io_team |-> "true",
                 deltastream_io_is_prod |-> "true",
                 deltastream_io_env |-> config.Stack.value,
                 deltastream_io_id |-> config.InfraId.value,
                 deltastream_io_name |-> "dp-" \o config.InfraId.value,
                 deltastream_io_is_byoc |-> "true"]

C24_Witness ==
    /\ pc = "returned"
    /\ d = ""
    /\ DeployIssued("PutSecretValue")
    /\ hist.initial[DeploymentSecretName].exists
    /\ hist.ext = 2

\* Whether a secret UpdateDeploymentConfig reads (by the attribute of the
\* resource identifiers that names it) can be read and decoded.
Readable(id) == hist.initial[id].exists /\ hist.initial[id].value.json

\* C25: when the DeltaStream secret or the database credential cannot be
\* read or decoded, UpdateDeploymentConfig returns an error diagnostic, no
\* DescribeSecret, CreateSecret or PutSecretValue is issued and the
\* deployment-config secret is as it was.
C25_UnreadableInputsLeaveSecret ==
    LET unreadable ==
          \/ ~Readable(ProviderSecretArn(config, Region))
          \/ ~Readable(RdsSecretArn(config, Region))
          \/ d \in {"unable to read DeltaStream secret",
                    "unable to unmarshal DeltaStream secret",
                    "unable to read rds credentials",
                    "unable to unmarshal rds credentials"}
    IN
    unreadable =>
      /\ pc \notin {"render", "describe", "create", "put"}
      /\ hist.calls = <<>>
      /\ pc = "returned" =>
           /\ d # ""
           /\ secrets[DeploymentSecretName] = hist.initial[DeploymentSecretName]

C25_Witness ==
    /\ pc = "returned"
    /\ d = "unable to unmarshal rds credentials"
    /\ hist.initial[DeploymentSecretName].exists

\* C26: the secret id Cleanup passes to DeleteSecret is the name
\* deltastream/<stack>/dp/<infraId>/aws/<region>/<eksResourceId>/deployment-config
\* under which UpdateDeploymentConfig wrote, so after UpdateDeploymentConfig
\* and a successful Cleanup the published secret is deleted.
C26_CleanupDeletesPublishedSecret ==
    /\ hist.deleted # "" => hist.deleted = DeploymentSecretName
    /\ hist.published # "" => hist.published = DeploymentSecretName
    /\ (hist.cleanup = "ok" /\ hist.published # "") =>
         /\ hist.deleted = hist.published
         /\ \/ ~secrets[hist.published].exists
            \/ secrets[hist.published].deletion = "scheduled"

C26_Witness ==
    /\ hist.cleanup = "ok"
    /\ hist.published # ""
    /\ impl = "drain"
    /\ config.DsRegion.value # Region
    /\ ~secrets[hist.published].exists

----------------------------------------------------------------------------
(* InstallDeltaStream (eksdataplane): the three manifests, then the        *)
(* rollout restart of the deployments of namespace flux-system             *)

installFrame ==
    <<impl, attempt, reconcileVars, retrylimits, phase, clock, componentVars>>

\* The deployments the flux manifest declares in namespace flux-system, in
\* the order List returns them.
FluxDeployments == <<"flux-system/source-controller", "flux-system/kustomize-controller">>

\* The manifests InstallDeltaStream renders and applies, in the order of its
\* three renderAndApplyTemplate calls.
InstallOrder_PlatformFirst == <<"platform", "flux", "data plane">>
InstallOrder == <<"flux", "platform", "data plane">>

\* The documents of a rendered manifest.
InstallManifest(name) ==
    IF name = "flux"
    THEN [i \in 1..Len(FluxDeployments) |-> [key |-> FluxDeployments[i], spec |-> "flux"]]
    ELSE IF name = "platform"
    THEN <<[key |-> "cluster-config/platform", spec |-> "platform"]>>
    ELSE <<[key |-> "cluster-config/data-plane", spec |-> "data plane"]>>

InstallKeys ==
    UNION {{InstallManifest(InstallOrder[i])[j].key :
              j \in 1..Len(InstallManifest(InstallOrder[i]))} : i \in 1..Len(InstallOrder)}

\* deployment.Spec.Template.Annotations["io.deltastream.tf-deltastream/restartedAt"]
RestartedAt == "restartedAt"

\* An error diagnostic: InstallDeltaStream returns.
InstallFailed(summary, apiFault) ==
    /\ d' = summary
    /\ pc' = "done"
    /\ hist' = [hist EXCEPT !.faults = @ \/ apiFault]
    /\ UNCHANGED <<cluster, rvClock, u, manifestYamls, doc, run, items>>

\* renderAndApplyTemplate of the run-th manifest starts.
InstallRender(n) ==
    /\ run' = n
    /\ manifestYamls' = InstallManifest(InstallOrder[n])
    /\ doc' = 1
    /\ pc' = "get"

\* dp.ClusterConfigurationData, then the first renderAndApplyTemplate
InstallGetConfig ==
    /\ pc = "config"
    /\ \E res \in {"ok", "err"} :
         IF res = "err"
         THEN InstallFailed("error getting configuration", TRUE)
         ELSE /\ InstallRender(1)
              /\ d' = d
              /\ hist' = [hist EXCEPT !.started = Append(@, InstallOrder[1])]
              /\ UNCHANGED <<cluster, rvClock, u, items>>
    /\ UNCHANGED installFrame

\* applyManifests: kubeClient.Get of the document's object
InstallGet ==
    /\ pc = "get"
    /\ \E res \in {"ok", "apierr"} :
         IF res = "apierr"
         THEN InstallFailed("Failed to lookup object", TRUE)
         ELSE /\ IF ~cluster[manifestYamls[doc].key].exists
                 THEN /\ u' = [rv |-> 0]
                      /\ pc' = "create"
                 ELSE /\ u' = [rv |-> cluster[manifestYamls[doc].key].rv]
                      /\ pc' = "update"
              /\ UNCHANGED <<cluster, rvClock, d, manifestYamls, doc, run, items, hist>>
    /\ UNCHANGED installFrame

\* The document is applied: the next document, the next manifest, or the
\* list of the deployments.
InstallDocApplied ==
    /\ d' = d
    /\ u' = u
    /\ items' = items
    /\ IF doc < Len(manifestYamls)
       THEN /\ doc' = doc + 1
            /\ pc' = "get"
            /\ hist' = hist
            /\ UNCHANGED <<manifestYamls, run>>
       ELSE IF run < Len(InstallOrder)
       THEN /\ InstallRender(run + 1)
            /\ hist' = [hist EXCEPT !.applied = Append(@, InstallOrder[run]),
                                    !.started = Append(@, InstallOrder[run + 1])]
       ELSE /\ pc' = "list"
            /\ hist' = [hist EXCEPT !.applied = Append(@, InstallOrder[run])]
            /\ UNCHANGED <<manifestYamls, doc, run>>

\* applyManifests: kubeClient.Create
InstallCreate ==
    /\ pc = "create"
    /\ \E res \in {"ok", "apierr"} :
         IF res = "ok" /\ CreateAccepted(manifestYamls[doc].key, u.rv)
         THEN /\ cluster' = Written(manifestYamls[doc].key, manifestYamls[doc].spec)
              /\ rvClock' = rvClock + 1
              /\ InstallDocApplied
         ELSE InstallFailed("Failed to create object", res = "apierr")
    /\ UNCHANGED installFrame

\* applyManifests: retry.Do(kubeClient.Update); the closure returns the error
\* as it is, which retry.Do does not retry.
InstallUpdate ==
    /\ pc = "update"
    /\ \E res \in {"ok", "apierr"} :
         IF res = "ok" /\ UpdateAccepted(manifestYamls[doc].key, u.rv)
         THEN /\ cluster' = Written(manifestYamls[doc].key, manifestYamls[doc].spec)
              /\ rvClock' = rvClock + 1
              /\ InstallDocApplied
         ELSE InstallFailed("Failed to update object", res = "apierr")
    /\ UNCHANGED installFrame

\* The deployments of namespace flux-system, as List returns them.
RECURSIVE ListDeployments(_)
ListDeployments(i) ==
    IF i > Len(FluxDeployments) THEN <<>>
    ELSE (IF cluster[FluxDeployments[i]].exists
          THEN <<[key |-> FluxDeployments[i], rv |-> cluster[FluxDeployments[i]].rv,
                  spec |-> cluster[FluxDeployments[i]].spec]>>
          ELSE <<>>) \o ListDeployments(i + 1)

\* kubeClient.List(&deployments, client.InNamespace("flux-system"))
InstallList ==
    /\ pc = "list"
    /\ \E res \in {"ok", "apierr"} :
         IF res = "apierr"
         THEN InstallFailed("error listing flux-system deployments", TRUE)
         ELSE /\ items' = ListDeployments(1)
              /\ pc' = IF items' = <<>> THEN "done" ELSE "annotate"
              /\ hist' = [hist EXCEPT
                            !.listed = [i \in 1..Len(items') |-> items'[i].key]]
              /\ UNCHANGED <<cluster, rvClock, d, u, manifestYamls, doc, run>>
    /\ UNCHANGED installFrame

\* One iteration of the loop over deployments.Items: the annotation is set on
\* the listed copy, and kubeClient.Update sends the listed copy with the
\* resource version List returned; an error of Update returns.
InstallAnnotate ==
    /\ pc = "annotate"
    /\ items # <<>>
    /\ \E res \in {"ok", "apierr"} :
         IF res = "ok" /\ UpdateAccepted(Head(items).key, Head(items).rv)
         THEN /\ cluster' = [cluster EXCEPT ![Head(items).key] =
                               [exists |-> TRUE, rv |-> rvClock + 1,
                                spec |-> Head(items).spec, extra |-> RestartedAt]]
              /\ rvClock' = rvClock + 1
              /\ items' = Tail(items)
              /\ pc' = IF Tail(items) = <<>> THEN "done" ELSE "annotate"
              /\ hist' = [hist EXCEPT !.annotated = Append(@, Head(items).key)]
              /\ UNCHANGED <<d, u, manifestYamls, doc, run>>
         ELSE InstallFailed("error updating deployment", res = "apierr")
    /\ UNCHANGED installFrame

\* Another writer (a controller, an operator) modifies, deletes or creates an
\* object while InstallDeltaStream runs.
InstallExternal ==
    /\ pc \in {"get", "create", "update", "list", "annotate"}
    /\ hist.ext < MaxExt
    /\ \E k \in InstallKeys :
         /\ \/ ExtModify(k) /\ hist' = [hist EXCEPT
                 !.ext = @ + 1,
                 !.listedModified =
                    @ + (IF pc = "annotate" /\ \E i \in 1..Len(items) : items[i].key = k
                         THEN 1 ELSE 0),
                 !.otherWrites =
                    @ + (IF pc = "annotate" /\ \E i \in 1..Len(items) : items[i].key = k
                         THEN 0 ELSE 1)]
            \/ (ExtDelete(k) \/ ExtCreate(k))
                 /\ hist' = [hist EXCEPT !.ext = @ + 1, !.otherWrites = @ + 1]
    /\ rvClock' = rvClock + 1
    /\ UNCHANGED <<pc, d, u, manifestYamls, doc, run, items, installFrame>>

InstallInit ==
    /\ impl = "eks"
    /\ \E present \in SUBSET InstallKeys :
         cluster = [k \in InstallKeys |->
                      IF k \in present
                      THEN [exists |-> TRUE, rv |-> 1, spec |-> "earlier", extra |-> "none"]
                      ELSE Absent]
    /\ rvClock = 1
    /\ pc = "config"
    /\ d = ""
    /\ u = [rv |-> 0]
    /\ manifestYamls = <<>> /\ doc = 0 /\ run = 0 /\ attempt = 0
    /\ items = <<>>
    /\ hist = [ext |-> 0, started |-> <<>>, applied |-> <<>>, listed |-> <<>>,
               annotated |-> <<>>, faults |-> FALSE, listedModified |-> 0,
               otherWrites |-> 0]
    /\ ReconcileIdle
    /\ retrylimits = 0 /\ phase = 0 /\ clock = 0
    /\ ComponentIdle

InstallNext ==
    \/ InstallGetConfig
    \/ InstallGet
    \/ InstallCreate
    \/ InstallUpdate
    \/ InstallList
    \/ InstallAnnotate
    \/ InstallExternal

SpecInstall == InstallInit /\ [][InstallNext]_vars

----------------------------------------------------------------------------
(* Properties of InstallDeltaStream *)

\* C27: InstallDeltaStream applies the flux manifest, then the platform
\* manifest, then the data-plane manifest, in that order; a manifest is started
\* only when the one before it was applied; once an error is recorded no
\* manifest is started or applied and no deployment is annotated any more; the
\* restartedAt annotation is written only after all three manifests were
\* applied, to the listed deployments in the order of the list, and a run
\* without error has annotated every listed deployment.
C27_ManifestsInOrderThenRestart ==
    /\ [](/\ IsPrefix(hist.started, <<"flux", "platform", "data plane">>)
          /\ IsPrefix(hist.applied, hist.started)
          /\ Len(hist.started) <= Len(hist.applied) + 1
          /\ (hist.listed # <<>> \/ hist.annotated # <<>>)
                => hist.applied = <<"flux", "platform", "data plane">>
          /\ IsPrefix(hist.annotated, hist.listed)
          /\ \A i \in 1..Len(hist.listed) : \E j \in 1..Len(FluxDeployments) : hist.listed[i] = FluxDeployments[j]
          /\ (pc = "done" /\ d = "")
                => /\ hist.applied = <<"flux", "platform", "data plane">>
                   /\ hist.annotated = hist.listed)
    /\ [][d # "" => /\ hist'.started = hist.started
                   /\ hist'.applied = hist.applied
                   /\ hist'.annotated = hist.annotated]_vars

\* A run without error that annotated both deployments of flux-system.
C27_Witness ==
    /\ pc = "done"
    /\ d = ""
    /\ hist.applied = <<"flux", "platform", "data plane">>
    /\ Len(hist.annotated) = Len(FluxDeployments)
    /\ \A i \in 1..Len(FluxDeployments) : cluster[FluxDeployments[i]].extra = RestartedAt

\* C29: when no call fails for another reason and the only write of another
\* writer is one modification of a listed deployment between List and its
\* Update, InstallDeltaStream returns without error.
C29_ListedDeploymentConflictTolerated ==
    (/\ pc = "done"
     /\ hist.applied = <<"flux", "platform", "data plane">>
     /\ ~hist.faults
     /\ hist.otherWrites = 0
     /\ hist.listedModified <= 1)
       => d = ""

----------------------------------------------------------------------------
(* suspendKustomization under a concurrent writer *)

\* C28: when the Update of suspendKustomization is rejected because the
\* kustomization was modified after getKustomization read it, and the backoff
\* grants a retry, the retry re-reads: the next attempt starts from a new Get
\* or sends a copy with the stored resource version.
C28_ConflictRetryRereads ==
    [][(/\ pc = "write"
        /\ WriteOp = "suspend"
        /\ cluster[Target].exists
        /\ u.rv # cluster[Target].rv
        /\ retrylimits' = retrylimits + 1)
          => (pc' = "get" \/ u'.rv = cluster'[Target].rv)]_vars

----------------------------------------------------------------------------
(* updateRoleTrustPolicies: the trust policies of the service roles *)

\* strings.Split(s, "/"): a string is held as the sequence of its parts, the
\* empty string as the one empty part.
SplitEmpty == <<"">>
LastPart_First(parts) == parts[1]
LastPart(parts) == parts[Len(parts)]

\* ValueString of a role ARN attribute, split at "/".
SplitArn(v) == IF v.state = "known" THEN v.value ELSE SplitEmpty

RoleArn(account, path) == <<"arn:aws:iam::" \o account \o ":role">> \o path

\* The configurations updateRoleTrustPolicies runs with: the two required
\* role ARNs, the optional workload manager role, roles with and without a
\* path.
TrustConfigurations ==
    {[AccountId |-> Known(a),
      DpManagerRoleArn |-> Known(RoleArn(a, dp)),
      StoreProxyRoleArn |-> Known(RoleArn(a, <<"store-proxy-role">>)),
      WorkloadManagerRoleArn |-> IF wm THEN Known(RoleArn(a, <<"workload-manager-role">>))
                                 ELSE Null] :
       a \in Accounts,
       dp \in {<<"dp-manager-role">>, <<"deltastream", "dp-manager-role">>},
       wm \in BOOLEAN}

RoleNames == {"dp-manager-role", "store-proxy-role", "workload-manager-role"}

\* cluster.Identity.Oidc.Issuer as DescribeCluster answers it; nil is <<>>.
Issuers ==
    {<<>>} \cup {<<"https:", "", "oidc.eks." \o Region \o ".amazonaws.com", "id", id>> :
                   id \in {"0A1B", "2C3D"}}

\* issArr[len(issArr)-1] of strings.Split(ptr.Deref(Issuer, ""), "/")
IssuerID(issuer) == LastPart(IF issuer = <<>> THEN SplitEmpty ELSE issuer)

\* The three calls of updateRoleTrustPolicy: the attribute holding the role
\* ARN, serviceAccountName, serviceAccountNamespace.
TrustRelations_NameAndNamespaceSwapped ==
    <<[arn |-> "DpManagerRoleArn", name |-> "deltastream", namespace |-> "dp-manager"],
      [arn |-> "StoreProxyRoleArn", name |-> "deltastream", namespace |-> "store-proxy"],
      [arn |-> "WorkloadManagerRoleArn", name |-> "dp-operator", namespace |-> "dp-operator-sa"]>>
TrustRelations ==
    <<[arn |-> "DpManagerRoleArn", name |-> "dp-manager", namespace |-> "deltastream"],
      [arn |-> "StoreProxyRoleArn", name |-> "store-proxy", namespace |-> "deltastream"],
      [arn |-> "WorkloadManagerRoleArn", name |-> "dp-operator-sa", namespace |-> "dp-operator"]>>

\* trustRelationTemplate executed: the federated principal and the two
\* conditions of the one statement.
TrustRelation(account, region, issuerID, svcNamespace, svcName) ==
    [Federated |-> "arn:aws:iam::" \o account \o ":oidc-provider/oidc.eks." \o region
                     \o ".amazonaws.com/id/" \o issuerID,
     aud |-> [key |-> "oidc.eks." \o region \o ".amazonaws.com/id/" \o issuerID \o ":aud",
              value |-> "sts.amazonaws.com"],
     sub |-> [key |-> "oidc.eks." \o region \o ".amazonaws.com/id/" \o issuerID \o ":sub",
              value |-> "system:serviceaccount:" \o svcNamespace \o ":" \o svcName]]

NoRole == [exists |-> FALSE, policy |-> <<>>]

\* iam UpdateAssumeRolePolicy: rejected for a role that does not exist (an
\* empty name included).
UpdateAssumeRolePolicyAccepted(roleName) ==
    roleName \in DOMAIN roles /\ roles[roleName].exists

\* dp.ClusterConfigurationData
TrustGetConfig ==
    /\ pc = "config"
    /\ \E fault \in BOOLEAN :
         IF fault
         THEN d' = "error getting configuration" /\ pc' = "done"
         ELSE d' = d /\ pc' = "describe"
    /\ UNCHANGED <<cluster, rvClock, impl, u, hist, config, secrets, buf, roles, roleIndex,
                   accountFrame>>

\* util.DescribeKubeCluster and the issuer id
TrustDescribeCluster ==
    /\ pc = "describe"
    /\ \E fault \in BOOLEAN, issuer \in Issuers :
         IF fault
         THEN /\ d' = "failed to describe EKS cluster"
              /\ pc' = "done"
              /\ UNCHANGED <<u, roleIndex, hist>>
         ELSE /\ u' = [issuerID |-> IssuerID(issuer)]
              /\ roleIndex' = 1
              /\ pc' = "render"
              /\ d' = d
              /\ hist' = [hist EXCEPT !.issuer = issuer]
    /\ UNCHANGED <<cluster, rvClock, impl, config, secrets, buf, roles, accountFrame>>

\* updateRoleTrustPolicy: the role name and the rendered document
TrustRender ==
    /\ pc = "render"
    /\ buf' = [RoleName |-> LastPart(SplitArn(config[TrustRelations[roleIndex].arn])),
               PolicyDocument |-> TrustRelation(ValueString(config.AccountId), Region,
                                                u.issuerID,
                                                TrustRelations[roleIndex].namespace,
                                                TrustRelations[roleIndex].name)]
    /\ pc' = "update"
    /\ UNCHANGED <<cluster, rvClock, impl, d, u, hist, config, secrets, roles, roleIndex,
                   accountFrame>>

\* updateRoleTrustPolicy: iam UpdateAssumeRolePolicy; updateRoleTrustPolicies
\* returns on its error and goes on to the next role otherwise.
TrustUpdateAssumeRolePolicy ==
    /\ pc = "update"
    /\ \E fault \in BOOLEAN :
         IF ~fault /\ UpdateAssumeRolePolicyAccepted(buf.RoleName)
         THEN /\ roles' = [roles EXCEPT ![buf.RoleName] =
                             [exists |-> TRUE, policy |-> buf.PolicyDocument]]
              /\ hist' = [hist EXCEPT !.calls = Append(@, [input |-> buf, ok |-> TRUE])]
              /\ d' = d
              /\ IF roleIndex < Len(TrustRelations)
                 THEN roleIndex' = roleIndex + 1 /\ pc' = "render"
                 ELSE roleIndex' = roleIndex /\ pc' = "done"
         ELSE /\ hist' = [hist EXCEPT !.calls = Append(@, [input |-> buf, ok |-> FALSE])]
              /\ d' = "failed to update role trust relation for role " \o buf.RoleName
              /\ pc' = "done"
              /\ UNCHANGED <<roles, roleIndex>>
    /\ UNCHANGED <<cluster, rvClock, impl, u, config, secrets, buf, accountFrame>>

TrustInit ==
    /\ impl = "aws"
    /\ config \in TrustConfigurations
    /\ \E present \in SUBSET RoleNames, earlier \in Issuers :
         roles = [n \in RoleNames |->
                    IF n \in present
                    THEN [exists |-> TRUE,
                          policy |-> TrustRelation(ValueString(config.AccountId), Region,
                                                   IssuerID(earlier), "earlier", "earlier")]
                    ELSE NoRole]
    /\ roleIndex = 0
    /\ secrets = <<>>
    /\ buf = <<>>
    /\ pc = "config"
    /\ d = ""
    /\ u = [issuerID |-> ""]
    /\ cluster = [k \in {} |-> Absent]
    /\ rvClock = 1
    /\ hist = [calls |-> <<>>, issuer |-> <<>>, initial |-> roles]
    /\ op = "none" /\ step = 0
    /\ ApplyIdle
    /\ CleanupIdle
    /\ AwsNodeIdle
    /\ CiliumIdle
    /\ RenderIdle
    /\ CopyIdle

TrustNext ==
    \/ TrustGetConfig
    \/ TrustDescribeCluster
    \/ TrustRender
    \/ TrustUpdateAssumeRolePolicy

SpecTrust == TrustInit /\ [][TrustNext]_vars

----------------------------------------------------------------------------
(* Properties of updateRoleTrustPolicies *)

\* The role name of a role ARN attribute as the configuration gives it.
ConfiguredRoleName(v) == IF v.state = "known" THEN v.value[Len(v.value)] ELSE ""

\* C30: the UpdateAssumeRolePolicy calls are, in this order, for the roles of
\* dp_manager_role_arn, store_proxy_role_arn and workload_manager_role_arn, each
\* with a policy for the one service account deltastream/dp-manager,
\* deltastream/store-proxy, dp-operator/dp-operator-sa and for the OIDC
\* provider id that ends the issuer described in this call; only the last call
\* can have failed, a run without error made all three, and a role is changed
\* by an accepted call only.
C30_ThreeRolesInOrder ==
    LET arns == <<config.DpManagerRoleArn, config.StoreProxyRoleArn,
                  config.WorkloadManagerRoleArn>>
        subs == <<"system:serviceaccount:deltastream:dp-manager",
                  "system:serviceaccount:deltastream:store-proxy",
                  "system:serviceaccount:dp-operator:dp-operator-sa">>
        id   == IF hist.issuer = <<>> THEN "" ELSE hist.issuer[Len(hist.issuer)]
        provider == "oidc.eks." \o Region \o ".amazonaws.com/id/" \o id
    IN
    /\ Len(hist.calls) <= 3
    /\ \A i \in 1..Len(hist.calls) :
         /\ hist.calls[i].input.RoleName = ConfiguredRoleName(arns[i])
         /\ hist.calls[i].input.PolicyDocument.sub.value = subs[i]
         /\ hist.calls[i].input.PolicyDocument.sub.key = provider \o ":sub"
         /\ hist.calls[i].input.PolicyDocument.aud.key = provider \o ":aud"
         /\ hist.calls[i].input.PolicyDocument.Federated =
              "arn:aws:iam::" \o config.AccountId.value \o ":oidc-provider/" \o provider
         /\ (i < Len(hist.calls)) => hist.calls[i].ok
    /\ (pc = "done" /\ d = "") => Len(hist.calls) = 3
    /\ \A n \in RoleNames :
         IF \E i \in 1..Len(hist.calls) :
              hist.calls[i].ok /\ hist.calls[i].input.RoleName = n
         THEN \E i \in 1..Len(hist.calls) :
                roles[n] = [exists |-> TRUE, policy |-> hist.calls[i].input.PolicyDocument]
         ELSE roles[n] = hist.initial[n]

\* The second role's update failed after the first was written: the third
\* role keeps the policy it had.
C30_Witness ==
    /\ pc = "done"
    /\ Len(hist.calls) = 2
    /\ hist.calls[1].ok
    /\ ~hist.calls[2].ok
    /\ config.WorkloadManagerRoleArn.state = "known"
    /\ roles["workload-manager-role"].exists
    /\ roles["workload-manager-role"] = hist.initial["workload-manager-role"]
    /\ roles["dp-manager-role"] # hist.initial["dp-manager-role"]

----------------------------------------------------------------------------
(* GetKubeClusterName, DescribeKubeCluster, GetKubeConfig, GetKubeClient *)

kubeFrame ==
    <<rvClock, pc, op, step, applyVars, cleanupVars, componentVars>>

\* basetypes.Int64Value
NullInt == [state |-> "null", value |-> 0]
UnknownInt == [state |-> "unknown", value |-> 0]
KnownInt(n) == [state |-> "known", value |-> n]

\* ValueInt64: 0 unless the value is known.
ValueInt64(v) == IF v.state = "known" THEN v.value ELSE 0

\* ptr.Deref(v.ValueInt64Pointer(), def): the pointer is nil for a null
\* value only.
DerefValueInt64Pointer(v, def) == IF v.state = "null" THEN def ELSE v.value

\* fmt's %d of a non-negative integer.
Digit(n) ==
    CASE n = 0 -> "0" [] n = 1 -> "1" [] n = 2 -> "2" [] n = 3 -> "3" [] n = 4 -> "4"
      [] n = 5 -> "5" [] n = 6 -> "6" [] n = 7 -> "7" [] n = 8 -> "8" [] OTHER -> "9"
RECURSIVE FormatInt(_)
FormatInt(n) == IF n < 10 THEN Digit(n) ELSE FormatInt(n \div 10) \o Digit(n % 10)

\* The cluster_configuration object of the resource, as planned: stack and
\* cluster_index are optional.
KubeConfigurations ==
    {[InfraId |-> Known("ds001"), Stack |-> s, ResourceId |-> Known("abc123"),
      ClusterIndex |-> i] :
       s \in {Null, Unknown, Known("dev")},
       i \in {NullInt, UnknownInt, KnownInt(0), KnownInt(12)}}

\* dp.ClusterConfigurationData: the object as it is, stack defaulted.
ClusterConfigurationData_NoDefault(cfg) == cfg
ClusterConfigurationData(cfg) ==
    IF cfg.Stack.state = "null" \/ cfg.Stack.state = "unknown"
    THEN [cfg EXCEPT !.Stack = Known("prod")]
    ELSE cfg

\* fmt.Sprintf("dp-%s-%s-%s-%d", ...) of GetKubeClusterName, in the aws
\* package (EksResourceId, ptr.Deref of the index pointer) and in the eks
\* package (ResourceId, ValueInt64).
GetKubeClusterName(i, cfg) ==
    "dp-" \o ValueString(ClusterConfigurationData(cfg).InfraId)
      \o "-" \o ValueString(ClusterConfigurationData(cfg).Stack)
      \o "-" \o ValueString(ClusterConfigurationData(cfg).ResourceId)
      \o "-" \o FormatInt(IF i = "aws"
                          THEN DerefValueInt64Pointer(
                                 ClusterConfigurationData(cfg).ClusterIndex, 0)
                          ELSE ValueInt64(ClusterConfigurationData(cfg).ClusterIndex))

\* What eks DescribeCluster can answer for the cluster: an error (the cluster
\* does not exist), no cluster, or a cluster with some of its fields nil.
NilString == "<nil>"
EksCluster ==
    [found |-> TRUE, nil |-> FALSE, Name |-> "the-cluster", Endpoint |-> "https://eks.example",
     CertificateAuthority |-> [nil |-> FALSE, Data |-> "LS0tQ0E="]]
NoEksCluster ==
    [found |-> TRUE, nil |-> TRUE, Name |-> NilString, Endpoint |-> NilString,
     CertificateAuthority |-> [nil |-> TRUE, Data |-> NilString]]
EksClusters ==
    {EksCluster,
     NoEksCluster,
     [NoEksCluster EXCEPT !.found = FALSE],
     [EksCluster EXCEPT !.Endpoint = NilString],
     [EksCluster EXCEPT !.CertificateAuthority = [nil |-> TRUE, Data |-> NilString]],
     [EksCluster EXCEPT !.CertificateAuthority = [nil |-> FALSE, Data |-> NilString]],
     [EksCluster EXCEPT !.Name = NilString]}

\* cluster == nil || cluster.Endpoint == nil || cluster.CertificateAuthority
\* == nil || cluster.CertificateAuthority.Data == nil
ClusterDataIsNil_EndpointOnly(c) == c.nil \/ c.Endpoint = NilString
ClusterDataIsNil(c) ==
    \/ c.nil
    \/ c.Endpoint = NilString
    \/ c.CertificateAuthority.nil
    \/ c.CertificateAuthority.Data = NilString

\* DescribeKubeCluster: the diagnostic, the cluster returned and the
\* DescribeCluster requests sent, for a failing or working configuration
\* read and API call.
DescribeKubeCluster(i, cfg, c, cfgFault, apiFault) ==
    IF cfgFault
    THEN [d |-> "error reading configuration", cluster |-> c, ok |-> FALSE,
          requests |-> <<>>]
    ELSE IF apiFault \/ ~c.found
    THEN [d |-> "Failed to describe EKS cluster", cluster |-> c, ok |-> FALSE,
          requests |-> <<GetKubeClusterName(i, cfg)>>]
    ELSE IF ClusterDataIsNil(c)
    THEN [d |-> "Failed to get EKS cluster", cluster |-> c, ok |-> FALSE,
          requests |-> <<GetKubeClusterName(i, cfg)>>]
    ELSE [d |-> "", cluster |-> c, ok |-> TRUE,
          requests |-> <<GetKubeClusterName(i, cfg)>>]

\* GetKubeConfig: eksConfigTemplate executed with the described cluster; the
\* dereference of a nil cluster.Name panics.
GetKubeConfig(i, cfg, c, cfgFault, apiFault) ==
    LET r == DescribeKubeCluster(i, cfg, c, cfgFault, apiFault) IN
    IF ~r.ok
    THEN [d |-> r.d, kubeConfig |-> <<>>, requests |-> r.requests]
    ELSE IF c.Name = NilString
    THEN [d |-> "panic: nil pointer dereference", kubeConfig |-> <<>>,
          requests |-> r.requests]
    ELSE [d |-> "", requests |-> r.requests,
          kubeConfig |-> [Endpoint |-> c.Endpoint, CAData |-> c.CertificateAuthority.Data,
                          Region |-> Region, ClusterName |-> c.Name]]

\* The call that returned last, and every name GetKubeClusterName returned
\* and every DescribeCluster request named so far.
KubeLogged(call) ==
    hist' = [hist EXCEPT !.last = call,
                         !.names = @ \cup (IF call.op = "GetKubeClusterName" /\ call.ok
                                           THEN {call.out.name} ELSE {})
                                     \cup {call.requests[j] : j \in 1..Len(call.requests)}]

\* A call of GetKubeClusterName
KubeGetKubeClusterName ==
    /\ \E cfgFault \in BOOLEAN :
         /\ d' = IF cfgFault THEN "error reading configuration" ELSE ""
         /\ u' = [name |-> IF cfgFault THEN "" ELSE GetKubeClusterName(impl, config)]
         /\ KubeLogged([op |-> "GetKubeClusterName", ok |-> ~cfgFault, out |-> u',
                        requests |-> <<>>, cluster |-> cluster])
    /\ UNCHANGED <<cluster, impl, config, kubeFrame>>

\* A call of DescribeKubeCluster
KubeDescribeKubeCluster ==
    /\ \E cfgFault \in BOOLEAN, apiFault \in BOOLEAN :
         LET r == DescribeKubeCluster(impl, config, cluster, cfgFault, apiFault) IN
         /\ d' = r.d
         /\ u' = [cluster |-> r.cluster]
         /\ KubeLogged([op |-> "DescribeKubeCluster", ok |-> r.ok, out |-> u',
                        requests |-> r.requests, cluster |-> cluster])
    /\ UNCHANGED <<cluster, impl, config, kubeFrame>>

\* A call of GetKubeConfig
KubeGetKubeConfig ==
    /\ \E cfgFault \in BOOLEAN, apiFault \in BOOLEAN :
         LET r == GetKubeConfig(impl, config, cluster, cfgFault, apiFault) IN
         /\ d' = r.d
         /\ u' = [kubeConfig |-> r.kubeConfig]
         /\ KubeLogged([op |-> "GetKubeConfig", ok |-> r.d = "", out |-> u',
                        requests |-> r.requests, cluster |-> cluster])
    /\ UNCHANGED <<cluster, impl, config, kubeFrame>>

\* A call of GetKubeClient: GetKubeConfig, RESTConfigFromKubeConfig,
\* client.New
KubeGetKubeClient ==
    /\ \E cfgFault \in BOOLEAN, apiFault \in BOOLEAN, clientFault \in BOOLEAN :
         LET r == GetKubeConfig(impl, config, cluster, cfgFault, apiFault) IN
         /\ d' = IF r.d # "" THEN r.d
                 ELSE IF clientFault THEN "Failed to initialize kube client" ELSE ""
         /\ u' = [kubeClient |-> IF d' = "" THEN r.kubeConfig ELSE <<>>]
         /\ KubeLogged([op |-> "GetKubeClient", ok |-> d' = "", out |-> u',
                        requests |-> r.requests, cluster |-> cluster])
    /\ UNCHANGED <<cluster, impl, config, kubeFrame>>

\* The cluster is created, deleted or changed between the calls.
KubeExternal ==
    /\ \E c \in EksClusters :
         /\ c # cluster
         /\ cluster' = c
    /\ hist' = [hist EXCEPT !.ext = TRUE]
    /\ UNCHANGED <<d, u, impl, config, kubeFrame>>

KubeInit ==
    /\ impl \in {"aws", "eks"}
    /\ config \in KubeConfigurations
    /\ cluster \in EksClusters
    /\ rvClock = 1
    /\ pc = "idle"
    /\ d = ""
    /\ u = [name |-> ""]
    /\ hist = [last |-> [op |-> "none", ok |-> FALSE, out |-> u, requests |-> <<>>,
                          cluster |-> cluster],
               names |-> {}, ext |-> FALSE]
    /\ op = "none" /\ step = 0
    /\ ApplyIdle
    /\ CleanupIdle
    /\ ComponentIdle

KubeNext ==
    \/ KubeGetKubeClusterName
    \/ KubeDescribeKubeCluster
    \/ KubeGetKubeConfig
    \/ KubeGetKubeClient
    \/ KubeExternal

SpecKube == KubeInit /\ [][KubeNext]_vars

----------------------------------------------------------------------------
(* Properties of the cluster name and the cluster description *)

\* C31: every name GetKubeClusterName returned, and every name a
\* DescribeCluster request carried, is "dp-" infraId "-" stack "-" resourceId
\* "-" clusterIndex of the configuration, with stack "prod" and index 0 when
\* unset, whatever calls were made before and whatever the cluster's state.
C31_ClusterNameFromConfiguration ==
    \A n \in hist.names :
      n = "dp-" \o config.InfraId.value
            \o "-" \o (IF config.Stack.state = "known" THEN config.Stack.value ELSE "prod")
            \o "-" \o config.ResourceId.value
            \o "-" \o (CASE config.ClusterIndex.state # "known" -> "0"
                          [] config.ClusterIndex.value = 0 -> "0"
                          [] config.ClusterIndex.value = 12 -> "12"
                          [] OTHER -> "?")

\* A second call returned the name after the cluster changed, for a
\* configuration without stack and cluster index.
C31_Witness ==
    /\ hist.last.op = "GetKubeClusterName"
    /\ hist.last.ok
    /\ hist.ext
    /\ config.Stack.state = "null"
    /\ config.ClusterIndex.state = "null"
    /\ hist.names = {"dp-ds001-prod-abc123-0"}

\* C32: a call of DescribeKubeCluster sends at most one DescribeCluster
\* request; it returns an error when the cluster is missing or its endpoint,
\* certificate authority or certificate authority data is absent; when it
\* returns no error the endpoint and the certificate authority data are
\* present; GetKubeConfig and GetKubeClient return a kubeconfig or client only
\* for a cluster DescribeKubeCluster accepts.
C32_DescribeRejectsIncompleteCluster ==
    LET c == hist.last.cluster
        complete == /\ c.found /\ ~c.nil
                    /\ c.Endpoint # NilString
                    /\ ~c.CertificateAuthority.nil
                    /\ c.CertificateAuthority.Data # NilString
    IN
    /\ Len(hist.last.requests) <= 1
    /\ hist.last.op = "DescribeKubeCluster" =>
          /\ ~complete => /\ ~hist.last.ok
                           /\ d # ""
                           /\ (Len(hist.last.requests) = 1
                                 \/ d = "error reading configuration")
          /\ hist.last.ok => (complete /\ d = "" /\ hist.last.out.cluster = c)
          /\ hist.last.ok <=> d = ""
    /\ hist.last.op \in {"GetKubeConfig", "GetKubeClient"} =>
          /\ hist.last.ok => complete
          /\ hist.last.ok <=> d = ""
          /\ ~hist.last.ok => hist.last.out \in {[kubeConfig |-> <<>>], [kubeClient |-> <<>>]}
          /\ hist.last.ok =>
                \E k \in {hist.last.out[f] : f \in DOMAIN hist.last.out} :
                  /\ k.Endpoint = c.Endpoint
                  /\ k.CAData = c.CertificateAuthority.Data

\* DescribeKubeCluster rejected a cluster whose certificate authority has no
\* data, after one request.
C32_Witness ==
    /\ hist.last.op = "DescribeKubeCluster"
    /\ ~hist.last.ok
    /\ d = "Failed to get EKS cluster"
    /\ Len(hist.last.requests) = 1
    /\ ~hist.last.cluster.CertificateAuthority.nil
    /\ hist.last.cluster.CertificateAuthority.Data = NilString

----------------------------------------------------------------------------
(* util.ApplyManifests under concurrent writers and deleters *)

\* C33: util.ApplyManifests never sends a Create for an object that carries
\* a resource version.
C33_CreateCarriesNoResourceVersion ==
    (impl = "util" /\ pc = "create") => u.rv = 0

\* C34: when no call fails for another reason and other writers only create
\* objects, util.ApplyManifests does not fail: a Create rejected because the
\* object exists meanwhile is retried, the retry finds the object and updates
\* it, and after the apply every object the manifest names holds the content
\* of the last document naming it.
C34_LostCreateRaceRetried ==
    (impl = "util" /\ run = 1 /\ ~hist.faults /\ hist.extKinds \subseteq {"create"})
      => /\ pc # "failed"
         /\ (hist.lastErr = "exists" /\ pc # "get")
               => (pc = "update" /\ u.rv = cluster[CurDoc.key].rv)
         /\ pc = "done" =>
               \A j \in 1..Len(manifestYamls) :
                 (\A l \in (j + 1)..Len(manifestYamls) :
                    manifestYamls[l].key # manifestYamls[j].key)
                   => /\ cluster[manifestYamls[j].key].exists
                      /\ cluster[manifestYamls[j].key].spec = manifestYamls[j].spec

\* The Create lost the race against another writer, and the next attempt is
\* about to update the object that writer created.
C34_Witness ==
    /\ impl = "util"
    /\ run = 1
    /\ pc = "update"
    /\ attempt = 1
    /\ hist.lastErr = "exists"
    /\ hist.extKinds = {"create"}
    /\ ~hist.faults
    /\ cluster[CurDoc.key].spec # CurDoc.spec

\* C35: an accepted Update of the apply leaves what the manifest does not
\* set (an annotation of another controller) as it was on the stored object.
C35_UpdateKeepsForeignFields ==
    [][(pc = "update" /\ hist'.ext = hist.ext /\ cluster' # cluster)
         => cluster'[CurDoc.key].extra = cluster[CurDoc.key].extra]_vars

\* C37: util.ApplyManifests applies the documents one at a time in file
\* order: a step of the apply writes only the object of the document at hand,
\* with that document's content, and moves on by one document only after that
\* write was accepted; when a document fails (unmarshal error or retries used
\* up) the apply returns an error diagnostic, the failing step writes nothing,
\* and nothing is read or written afterwards, so the documents applied before
\* stay as written.
C37_DocumentsInFileOrder ==
    /\ [](impl = "util" =>
            /\ doc \in 1..Len(manifestYamls)
            /\ (pc \in {"failed", "invalid"} => d # "")
            /\ (pc = "done" => doc = Len(manifestYamls) /\ d = ""))
    /\ [][(impl = "util" /\ run' = run /\ hist'.ext = hist.ext) =>
            /\ doc' \in {doc, doc + 1}
            /\ (doc' = doc + 1 \/ (pc # "done" /\ pc' = "done"))
                  => /\ cluster'[manifestYamls[doc].key].exists
                     /\ cluster'[manifestYamls[doc].key].spec = manifestYamls[doc].spec
                     /\ cluster'[manifestYamls[doc].key].rv > cluster[manifestYamls[doc].key].rv
            /\ \A k \in Keys :
                 cluster'[k] # cluster[k]
                   => /\ k = manifestYamls[doc].key
                      /\ (doc' = doc + 1 \/ pc' = "done")
            /\ pc' \in {"failed", "invalid"} => (cluster' = cluster /\ doc' = doc)
            /\ pc \in {"failed", "invalid"} => UNCHANGED <<cluster, doc, pc, d>>]_vars

\* The second document failed after its retries were used up; the first
\* document's object is in the cluster with the first document's content.
C37_Witness ==
    /\ impl = "util"
    /\ run = 1
    /\ pc = "failed"
    /\ doc = 2
    /\ attempt = MaxRetries
    /\ d = "Failed to create manifest"
    /\ manifestYamls[1].key # manifestYamls[2].key
    /\ cluster[manifestYamls[1].key].exists
    /\ cluster[manifestYamls[1].key].spec = manifestYamls[1].spec
    /\ cluster[manifestYamls[2].key] # Absent => cluster[manifestYamls[2].key].spec = "x"

----------------------------------------------------------------------------
(* The state written by Create and Update *)

\* C36: AWSDataplaneResource.Create and Update call State.Set at most once,
\* and only after every component of the operation was run and returned
\* without error; when a component failed State.Set is not called; the status
\* of the written state has the configuration's product version and the
\* provider's configured version.
C36_StateWrittenAfterAllSteps ==
    impl = "aws" =>
      /\ Len(hist.stateWrites) <= 1
      /\ (\E i \in 1..Len(hist.results) : hist.results[i] # "ok") => hist.stateWrites = <<>>
      /\ \A w \in 1..Len(hist.stateWrites) :
           /\ hist.calls = (IF op = "Create" THEN CreateSteps("aws") ELSE UpdateSteps("aws"))
           /\ Len(hist.results) = Len(hist.calls)
           /\ \A i \in 1..Len(hist.results) : hist.results[i] = "ok"
           /\ hist.stateWrites[w].call = "Set"
           /\ hist.stateWrites[w].status.ProductVersion =
                (IF config = "cfgA" THEN "1.0.0" ELSE "1.1.0")
           /\ hist.stateWrites[w].status.ProviderVersion = "0.9.2"
           /\ pc = "done"
           /\ hist.stateWrites[w].ok <=> d = ""

\* An Update of AWSDataplaneResource that wrote the state.
C36_Witness ==
    /\ impl = "aws"
    /\ op = "Update"
    /\ config = "cfgB"
    /\ pc = "done"
    /\ d = ""
    /\ Len(hist.stateWrites) = 1
    /\ hist.stateWrites[1].ok
    /\ hist.stateWrites[1].status.ProductVersion = "1.1.0"

\* C39: an Update of any of the resource versions runs UpdateClusterConfig,
\* CopyImages and InstallDeltaStream only: DeleteAwsNode (the deletion of the
\* aws-node DaemonSet and ServiceAccount, the reboot of the nodes) and
\* InstallCilium are never called.
C39_UpdateLeavesNetworkLayer ==
    op = "Update" =>
      /\ \A i \in 1..Len(hist.calls) :
           hist.calls[i] \in {"UpdateClusterConfig", "CopyImages", "InstallDeltaStream"}
      /\ (pc = "done" /\ d = "") =>
           {hist.calls[i] : i \in 1..Len(hist.calls)} =
             {"UpdateClusterConfig", "CopyImages", "InstallDeltaStream"}

\* An Update of the EKS resource that ran to its end.
C39_Witness ==
    /\ op = "Update"
    /\ impl = "eks1"
    /\ pc = "done"
    /\ d = ""
    /\ hist.calls = <<"CopyImages", "UpdateClusterConfig", "InstallDeltaStream">>
    /\ Len(hist.stateWrites) = 1

----------------------------------------------------------------------------
(* The Services Cleanup deletes *)

\* C38: Cleanup sends a Delete for a Service only when the Service was
\* returned by the List of namespace istio-system and has type LoadBalancer;
\* the loop passes over no listed LoadBalancer Service without a Delete and
\* ends without error only after the whole list was visited; no step of
\* Cleanup changes a Service of another type or of another namespace.
C38_OnlyListedLoadBalancersDeleted ==
    /\ [](/\ \A x \in hist.calls :
               (x.call = "Delete" /\ Phases[x.phase].op = "deleteLoadBalancers")
                 => (x.target \in {"istio-ingressgateway", "istio-grafana-gateway"})
          /\ (pc \in {"loop", "write"} /\ CurPhase.op = "deleteLoadBalancers")
                => \A i \in 1..Len(items) :
                     /\ items[i].name \in {"istio-ingressgateway", "istiod",
                                            "istio-grafana-gateway"}
                     /\ items[i].type = (IF items[i].name = "istiod" THEN "ClusterIP"
                                         ELSE "LoadBalancer")
          /\ (pc = "write" /\ CurPhase.op = "deleteLoadBalancers")
                => Head(items).type = "LoadBalancer")
    /\ [][/\ cluster'["istiod"] = cluster["istiod"]
          /\ cluster'[OtherService] = cluster[OtherService]
          /\ (pc = "loop" /\ CurPhase.op = "deleteLoadBalancers" /\ items # <<>>
                /\ Head(items).type = "LoadBalancer")
               => (pc' = "write" /\ items' = items)
          /\ (CurPhase.op = "deleteLoadBalancers" /\ phase' # phase) => items = <<>>
          /\ (pc = "write" /\ CurPhase.op = "deleteLoadBalancers" /\ items' # items)
               => (~cluster'[Head(items).name].exists
                   /\ [phase |-> phase, call |-> "Delete", target |-> Head(items).name]
                        \in hist'.calls)]_vars

\* Cleanup returned without error on a cluster with both load balancers:
\* both are gone, the ClusterIP Service and the load balancer of the other
\* namespace are still there.
C38_Witness ==
    /\ pc = "done"
    /\ d = ""
    /\ \E x \in hist.calls : x.call = "Delete" /\ x.target = "istio-ingressgateway"
    /\ \E x \in hist.calls : x.call = "Delete" /\ x.target = "istio-grafana-gateway"
    /\ ~cluster["istio-ingressgateway"].exists
    /\ ~cluster["istio-grafana-gateway"].exists
    /\ cluster["istiod"].exists
    /\ cluster[OtherService].exists

----------------------------------------------------------------------------
(* deployCustomCredentialsContiner: the custom-credentials manifests and   *)
(* the rollout of the dp-manager deployment                                *)

credFrame == <<impl, op, step, run, retrylimits, phase, items, componentVars>>

\* retry.WithMaxDuration(time.Minute*5, retry.NewConstant(time.Second*5)),
\* in seconds.
RolloutMaxDuration == 300
RolloutBackoff == 5

\* custom_credentials_image, held as strings.Split(image, ":") gives it: a
\* repository and a tag, a repository alone, a registry with a port, the
\* empty string.
CredImages ==
    {<<"deltastreaminc/custom-credentials", "1.2.3">>,
     <<"deltastreaminc/custom-credentials">>,
     <<"registry.local", "5000/custom-credentials", "1.2.3">>,
     <<"">>}

CredConfigurations ==
    {[AccountId |-> Known(a), CustomCredentialsImage |-> img] :
       a \in {"111111111111"},
       img \in {Null, Unknown} \cup {Known(i) : i \in CredImages}}

\* clusterConfig.CustomCredentialsImage.IsNull() || ....IsUnknown()
ImageUnset(v) == v.state = "null" \/ v.state = "unknown"

\* len(imgSpl) != 2
ImageInvalid_LessThanTwo(imgSpl) == Len(imgSpl) < 2
ImageInvalid(imgSpl) == Len(imgSpl) # 2

\* The map the template is rendered with.
CredData(region, cfg, imgSpl) ==
    [Region |-> region, AccountID |-> ValueString(cfg.AccountId),
     ImageRepository |-> imgSpl[1], ImageTag |-> imgSpl[2]]

OCIRepositoryKey == "cluster-config/OCIRepository/dp-custom-credentials"
KustomizationKey == "cluster-config/Kustomization/dp-custom-credentials"
DpManager == "deltastream/Deployment/dp-manager"
CredKeys == {OCIRepositoryKey, KustomizationKey, DpManager}

\* assets/custom-credentials.yaml rendered: the OCIRepository with its url,
\* the Kustomization with the image's new name and tag.
CredManifest(vals) ==
    <<[key |-> OCIRepositoryKey,
       spec |-> "oci://" \o vals.AccountID \o ".dkr.ecr." \o vals.Region
                  \o ".amazonaws.com/deltastreaminc/oci/custom-credentials"],
      [key |-> KustomizationKey,
       spec |-> vals.ImageRepository \o ":" \o vals.ImageTag]>>

\* dpmanagerDeployment.Spec.Template.Annotations["dataplane.deltastream.io/rollout"]
Rollout == "rollout"

\* Whether the duration-bounded backoff of the rollout stops.
RolloutStops(t) == RolloutMaxDuration - t <= 0

CredRequested(call, key) == [hist EXCEPT !.requests = @ \cup {[call |-> call, key |-> key]}]

\* An error diagnostic: deployCustomCredentialsContiner returns.
CredFailed(summary) ==
    /\ d' = summary
    /\ pc' = "done"
    /\ UNCHANGED <<cluster, rvClock, u, manifestYamls, doc, attempt, clock>>

\* dp.ClusterConfigurationData
CredGetConfig ==
    /\ pc = "config"
    /\ \E fault \in BOOLEAN :
         IF fault
         THEN CredFailed("error getting configuration")
                /\ hist' = [hist EXCEPT !.prerequisite = FALSE]
         ELSE /\ pc' = "client"
              /\ UNCHANGED <<cluster, rvClock, d, u, manifestYamls, doc, attempt, clock, hist>>
    /\ UNCHANGED <<config, credFrame>>

\* util.GetKubeClient
CredGetKubeClient ==
    /\ pc = "client"
    /\ \E fault \in BOOLEAN :
         IF fault
         THEN CredFailed("error getting kube client")
                /\ hist' = [hist EXCEPT !.prerequisite = FALSE]
         ELSE /\ pc' = "image"
              /\ UNCHANGED <<cluster, rvClock, d, u, manifestYamls, doc, attempt, clock, hist>>
    /\ UNCHANGED <<config, credFrame>>

\* The checks of custom_credentials_image, then the rendering of the
\* template.
CredCheckImage ==
    /\ pc = "image"
    /\ IF ImageUnset(config.CustomCredentialsImage)
       THEN /\ pc' = "done"
            /\ UNCHANGED <<d, manifestYamls, doc>>
       ELSE IF ImageInvalid(config.CustomCredentialsImage.value)
       THEN /\ d' = "invalid custom credentials image"
            /\ pc' = "done"
            /\ UNCHANGED <<manifestYamls, doc>>
       ELSE /\ manifestYamls' = CredManifest(CredData(Region, config,
                                                      config.CustomCredentialsImage.value))
            /\ doc' = 1
            /\ pc' = "get"
            /\ d' = d
    /\ UNCHANGED <<cluster, rvClock, u, attempt, clock, hist, config, credFrame>>

\* util.ApplyManifests: a call of the current attempt failed; every error is
\* retried until the backoff stops.
CredCallFailed ==
    /\ IF ~BackoffStops(attempt)
       THEN /\ attempt' = attempt + 1
            /\ pc' = "get"
            /\ d' = d
       ELSE /\ attempt' = attempt
            /\ pc' = "done"
            /\ d' = "Failed to create manifest"
    /\ UNCHANGED <<cluster, rvClock, u, manifestYamls, doc, clock>>

\* util.ApplyManifests: the document is applied; the next document, or the
\* rollout of dp-manager.
CredDocApplied ==
    /\ IF doc < Len(manifestYamls)
       THEN /\ doc' = doc + 1
            /\ pc' = "get"
       ELSE /\ doc' = doc
            /\ pc' = "rollout"
    /\ attempt' = 0
    /\ u' = [rv |-> 0]
    /\ UNCHANGED <<d, manifestYamls, clock>>

\* util.ApplyManifests: kubeClient.Get of the document's object
CredGet ==
    /\ pc = "get"
    /\ \E res \in {"ok", "apierr"} :
         IF res = "apierr"
         THEN CredCallFailed
         ELSE /\ IF IsNotFound(manifestYamls[doc].key)
                 THEN /\ u' = u
                      /\ pc' = "create"
                 ELSE /\ u' = SetResourceVersion(u, cluster[manifestYamls[doc].key].rv)
                      /\ pc' = "update"
              /\ UNCHANGED <<cluster, rvClock, d, manifestYamls, doc, attempt, clock>>
    /\ UNCHANGED <<hist, config, credFrame>>

\* util.ApplyManifests: kubeClient.Create
CredCreate ==
    /\ pc = "create"
    /\ \E res \in {"ok", "apierr"} :
         IF res = "ok" /\ CreateAccepted(manifestYamls[doc].key, u.rv)
         THEN /\ cluster' = Written(manifestYamls[doc].key, manifestYamls[doc].spec)
              /\ rvClock' = rvClock + 1
              /\ CredDocApplied
              /\ hist' = [CredRequested("Create", manifestYamls[doc].key)
                            EXCEPT !.applied = doc]
         ELSE /\ CredCallFailed
              /\ hist' = CredRequested("Create", manifestYamls[doc].key)
    /\ UNCHANGED <<config, credFrame>>

\* util.ApplyManifests: kubeClient.Update
CredUpdate ==
    /\ pc = "update"
    /\ \E res \in {"ok", "apierr"} :
         IF res = "ok" /\ UpdateAccepted(manifestYamls[doc].key, u.rv)
         THEN /\ cluster' = Written(manifestYamls[doc].key, manifestYamls[doc].spec)
              /\ rvClock' = rvClock + 1
              /\ CredDocApplied
              /\ hist' = [CredRequested("Update", manifestYamls[doc].key)
                            EXCEPT !.applied = doc]
         ELSE /\ CredCallFailed
              /\ hist' = CredRequested("Update", manifestYamls[doc].key)
    /\ UNCHANGED <<config, credFrame>>

\* An attempt of the rollout failed: it sleeps RolloutBackoff and runs again,
\* until the backoff stops.  The model follows the attempts that cost no
\* time (at most MaxPolls of them) and those after which the deadline has
\* passed.
RolloutAttemptFailed(h) ==
    /\ IF RolloutStops(clock)
       THEN /\ d' = "error updating dp-manager deployment"
            /\ pc' = "done"
            /\ clock' = clock
       ELSE /\ \E callTime \in {0, RolloutMaxDuration} :
                 /\ clock' = Min(clock + callTime
                                   + Min(RolloutBackoff, RolloutMaxDuration - clock),
                                 RolloutMaxDuration)
                 /\ clock' < RolloutMaxDuration => h.polls < MaxPolls
            /\ pc' = "rollout"
            /\ d' = d
    /\ hist' = h
    /\ UNCHANGED <<cluster, rvClock, u, manifestYamls, doc, attempt>>

\* The rollout closure: util.GetKubeClient and kubeClient.Get of dp-manager
CredRolloutGet ==
    /\ pc = "rollout"
    /\ \E res \in {"ok", "clienterr", "apierr"} :
         IF res = "ok" /\ cluster[DpManager].exists
         THEN /\ u' = [rv |-> cluster[DpManager].rv]
              /\ pc' = "annotate"
              /\ hist' = [hist EXCEPT !.polls = @ + 1]
              /\ UNCHANGED <<cluster, rvClock, d, manifestYamls, doc, attempt, clock>>
         ELSE RolloutAttemptFailed([hist EXCEPT !.polls = @ + 1])
    /\ UNCHANGED <<config, credFrame>>

\* The rollout closure: the annotation is set on the fetched deployment and
\* kubeClient.Update sends it.
CredRolloutUpdate ==
    /\ pc = "annotate"
    /\ \E res \in {"ok", "apierr"} :
         IF res = "ok" /\ UpdateAccepted(DpManager, u.rv)
         THEN /\ cluster' = [cluster EXCEPT ![DpManager] =
                               [@ EXCEPT !.rv = rvClock + 1, !.extra = Rollout]]
              /\ rvClock' = rvClock + 1
              /\ pc' = "done"
              /\ hist' = [CredRequested("Update", DpManager) EXCEPT !.annotated = TRUE]
              /\ UNCHANGED <<d, u, manifestYamls, doc, attempt, clock>>
         ELSE RolloutAttemptFailed(CredRequested("Update", DpManager))
    /\ UNCHANGED <<config, credFrame>>

\* Another writer modifies, deletes or creates one of the objects while
\* deployCustomCredentialsContiner runs.
CredExternal ==
    /\ pc \in {"get", "create", "update", "rollout", "annotate"}
    /\ hist.ext < MaxExt
    /\ \E k \in CredKeys : ExtModify(k) \/ ExtDelete(k) \/ ExtCreate(k)
    /\ rvClock' = rvClock + 1
    /\ hist' = [hist EXCEPT !.ext = @ + 1]
    /\ UNCHANGED <<pc, d, u, manifestYamls, doc, attempt, clock, config, credFrame>>

CredInit ==
    /\ impl = "aws"
    /\ config \in CredConfigurations
    /\ \E present \in SUBSET CredKeys :
         cluster = [k \in CredKeys |->
                      IF k \in present
                      THEN [exists |-> TRUE, rv |-> 1, spec |-> "earlier", extra |-> "none"]
                      ELSE Absent]
    /\ rvClock = 1
    /\ pc = "config"
    /\ d = ""
    /\ u = [rv |-> 0]
    /\ manifestYamls = <<>> /\ doc = 0 /\ attempt = 0 /\ run = 0
    /\ retrylimits = 0 /\ phase = 0 /\ items = <<>> /\ clock = 0
    /\ op = "none" /\ step = 0
    /\ hist = [ext |-> 0, requests |-> {}, applied |-> 0, annotated |-> FALSE,
               prerequisite |-> TRUE, polls |-> 0, initial |-> cluster]
    /\ ComponentIdle

CredNext ==
    \/ CredGetConfig
    \/ CredGetKubeClient
    \/ CredCheckImage
    \/ CredGet
    \/ CredCreate
    \/ CredUpdate
    \/ CredRolloutGet
    \/ CredRolloutUpdate
    \/ CredExternal

SpecCred == CredInit /\ [][CredNext]_vars

----------------------------------------------------------------------------
(* Properties of deployCustomCredentialsContiner *)

\* C40: deployCustomCredentialsContiner sends a write to the cluster only
\* when custom_credentials_image is set and splits at ":" into exactly two
\* parts.  Once the configuration and the kube client were obtained, an unset
\* image makes it return without error and without any write, and an image
\* of any other number of parts makes it return the error "invalid custom
\* credentials image" without any write.  The update of dp-manager is sent
\* only after both documents of the manifest were applied, and no error is
\* on the diagnostics then.
C40_WritesOnlyForRepositoryAndTag ==
    LET img == config.CustomCredentialsImage IN
    /\ hist.requests # {} => (img.state = "known" /\ Len(img.value) = 2)
    /\ (pc = "done" /\ hist.prerequisite /\ img.state # "known")
         => (d = "" /\ hist.requests = {} /\ cluster = hist.initial)
    /\ (pc = "done" /\ hist.prerequisite /\ img.state = "known" /\ Len(img.value) # 2)
         => (d = "invalid custom credentials image" /\ hist.requests = {}
             /\ cluster = hist.initial)
    /\ (~hist.prerequisite)
         => (pc = "done" /\ hist.requests = {}
             /\ d \in {"error getting configuration", "error getting kube client"})
    /\ (pc = "annotate" \/ [call |-> "Update", key |-> DpManager] \in hist.requests)
         => (hist.applied = 2 /\ (pc # "done" => d = ""))
    /\ hist.annotated
         => (d = "" /\ [call |-> "Update", key |-> DpManager] \in hist.requests)

\* The function returned without error for a repository and a tag: both
\* documents were applied and dp-manager carries the rollout annotation.
C40_Witness ==
    /\ pc = "done"
    /\ d = ""
    /\ config.CustomCredentialsImage = Known(<<"deltastreaminc/custom-credentials", "1.2.3">>)
    /\ hist.annotated
    /\ hist.ext = 0
    /\ cluster[KustomizationKey].spec = "deltastreaminc/custom-credentials:1.2.3"
    /\ cluster[OCIRepositoryKey].exists
    /\ cluster[DpManager].extra = Rollout

====
